---------------------------- MODULE Spec2Model ----------------------------
(***************************************************************************)
(* A model of the turn scheduling and state transition core of pacai:      *)
(*   pacai.core.ticket.Ticket, pacai.core.gamestate.GameState,             *)
(*   pacai.core.game.Game (process_turn, check_end, run), with the board   *)
(*   of pacai.core.board and the Pac-Man family rules of                   *)
(*   pacai.pacman.gamestate (legal actions) and pacai.capture.gamestate    *)
(*   (process_turn) as the concrete game, and the agent isolators of       *)
(*   pacai.core.isolation (none, tcp, process) that Game.run drives.       *)
(*                                                                         *)
(* Python dicts keep insertion order, and the scheduler's tie break rests  *)
(* on it, so a dict is a sequence of [k, v] entries with distinct keys.    *)
(***************************************************************************)
EXTENDS Integers, Sequences, FiniteSets, TLC

VARIABLES
    board,          \* GameState.board: agent markers, pellets, initial positions
    agent_index,    \* GameState.agent_index (-1: no agent selected)
    game_over,      \* GameState.game_over
    last_actions,   \* GameState.last_actions (dict)
    score,          \* GameState.score
    turn_count,     \* GameState.turn_count
    move_delays,    \* GameState.move_delays (dict)
    tickets,        \* GameState.tickets (dict)
    timeout,        \* state.timeout, set by Game.run on a turn budget exit
    history,        \* GameResult.history
    max_turns,      \* GameInfo.max_turns
    action_record,  \* the AgentActionRecord of the turn under way
    pc,             \* position of the caller (harness or Game.run)
    err,            \* the exception that ended the caller, or "none"
    fn_in,          \* inputs of a pure function under check
    fn_out,         \* its result
    level,          \* GameInfo.isolation_level: "none", "process" or "tcp"
    isolator,       \* the isolator's tables: agents, processes and queues held
    workers,        \* the agent processes of the subprocess backend
    channels,       \* what is in flight in the queues of the subprocess backend
    reply,          \* what the agent's own get_action did on the last request
    successor,      \* the state generate_sucessor returned last
    is_replay,      \* Game._is_replay
    result_score,   \* GameResult.score
    rng,            \* the state of the game's random.Random
    agent_user_inputs,  \* Game.run's agent_user_inputs (dict)
    ui_log,         \* what the UI reported and what each agent was handed
    replay_info,    \* the saved GameResult: board source, agent infos, history
    scripted_actions    \* ScriptedAgent._actions of the agents of a replay

vars == <<board, agent_index, game_over, last_actions, score, turn_count,
          move_delays, tickets, timeout, history, max_turns, action_record,
          pc, err, fn_in, fn_out, level, isolator, workers, channels, reply,
          successor, is_replay, result_score, rng, agent_user_inputs, ui_log,
          replay_info, scripted_actions>>

ioVars == <<rng, agent_user_inputs, ui_log, replay_info, scripted_actions>>

auxVars == <<level, isolator, workers, channels, reply, successor, is_replay,
             ioVars>>

stateVars == <<board, agent_index, game_over, last_actions, score, turn_count,
               move_delays, tickets, timeout>>

-----------------------------------------------------------------------------
(* Bounds of the model. *)

MaxAgents == 3
MaxSeed == 7
RngModulus == 16
MaxInputs == 3
MaxNewInputs == 2
MaxTime == 2
MaxTurns == 6
CorridorLen == 3

-----------------------------------------------------------------------------
(* Python dict, insertion ordered. *)

NoAgent == -1

None == "None"

\* None where a Position is expected.
NoPosition == <<>>

DictKeys(d) == {d[i].k : i \in DOMAIN d}

DictHas(d, key) == key \in DictKeys(d)

DictGet(d, key) == d[CHOOSE i \in DOMAIN d : d[i].k = key].v

\* d[key] = value: an existing key keeps its place, a new key goes last.
DictSet(d, key, value) ==
    IF DictHas(d, key)
    THEN [i \in DOMAIN d |-> IF d[i].k = key THEN [k |-> key, v |-> value] ELSE d[i]]
    ELSE Append(d, [k |-> key, v |-> value])

\* Number of entries that carry the key.
DictCount(d, key) == Cardinality({i \in DOMAIN d : d[i].k = key})

-----------------------------------------------------------------------------
(* pacai.core.ticket.Ticket *)

Ticket(next_time, last_time, num_moves) ==
    [next_time |-> next_time, last_time |-> last_time, num_moves |-> num_moves]

TicketTuple(t) == <<t.next_time, t.last_time, t.num_moves>>

\* Tuple comparison as Python does it: the first position where the two
\* tuples differ decides; with none, the shorter one is smaller.
RECURSIVE TupleLT(_, _)
TupleLT(s, t) ==
    IF s = <<>> THEN t # <<>>
    ELSE IF t = <<>> THEN FALSE
    ELSE IF Head(s) # Head(t) THEN Head(s) < Head(t)
    ELSE TupleLT(Tail(s), Tail(t))

\* A mutant: only the first field is compared.
TicketLT_FirstFieldOnly(a, b) == a.next_time < b.next_time

\* A mutant: the operands are swapped.
TicketLT_Reversed(a, b) == TupleLT(TicketTuple(b), TicketTuple(a))

\* a < b on tickets (NamedTuple inherits tuple's order).
TicketLT(a, b) == TupleLT(TicketTuple(a), TicketTuple(b))

\* Ticket.is_before(other): "the agent with the lowest ticket (starting with
\* the first value and moving to the next on a tie) gets to move next".
is_before(a, b) == TicketLT(a, b)

\* A mutant: last_time is carried over instead of set to the old next_time.
\* A mutant: the next turn is not moved on by the delay.
TicketNext_NoDelay(t, move_delay) ==
    Ticket(t.next_time, t.next_time, t.num_moves + 1)

\* A mutant: the next turn is one time unit on, whatever the delay.
TicketNext_UnitDelay(t, move_delay) ==
    Ticket(t.next_time + 1, t.next_time, t.num_moves + 1)

TicketNext_KeepLast(t, move_delay) ==
    Ticket(t.next_time + move_delay, t.last_time, t.num_moves + 1)

\* Ticket.next(move_delay)
TicketNext(t, move_delay) ==
    Ticket(t.next_time + move_delay, t.next_time, t.num_moves + 1)

-----------------------------------------------------------------------------
(* GameState.get_next_agent_index *)

\* The loop over self.tickets.items(), from entry i on, with the running
\* next_index.
RECURSIVE NextIndexLoop(_, _, _)
NextIndexLoop(tk, i, next_index) ==
    IF i > Len(tk) THEN next_index
    ELSE IF next_index = NoAgent \/ is_before(tk[i].v, DictGet(tk, next_index))
         THEN NextIndexLoop(tk, i + 1, tk[i].k)
         ELSE NextIndexLoop(tk, i + 1, next_index)

\* A mutant: a later ticket also wins when it is equal (<= for <).
RECURSIVE NextIndexLoop_LastWins(_, _, _)
NextIndexLoop_LastWins(tk, i, next_index) ==
    IF i > Len(tk) THEN next_index
    ELSE IF next_index = NoAgent \/ ~is_before(DictGet(tk, next_index), tk[i].v)
         THEN NextIndexLoop_LastWins(tk, i + 1, tk[i].k)
         ELSE NextIndexLoop_LastWins(tk, i + 1, next_index)

get_next_agent_index_LastWins(tk) == NextIndexLoop_LastWins(tk, 1, NoAgent)

\* A mutant: the two tickets are compared the wrong way round.
RECURSIVE NextIndexLoop_Swapped(_, _, _)
NextIndexLoop_Swapped(tk, i, next_index) ==
    IF i > Len(tk) THEN next_index
    ELSE IF next_index = NoAgent \/ is_before(DictGet(tk, next_index), tk[i].v)
         THEN NextIndexLoop_Swapped(tk, i + 1, tk[i].k)
         ELSE NextIndexLoop_Swapped(tk, i + 1, next_index)

get_next_agent_index_Swapped(tk) == NextIndexLoop_Swapped(tk, 1, NoAgent)

get_next_agent_index(tk) == NextIndexLoop(tk, 1, NoAgent)

-----------------------------------------------------------------------------
(* pacai.core.action and pacai.core.board *)

STOP == "STOP"
NORTH == "NORTH"
EAST == "EAST"
SOUTH == "SOUTH"
WEST == "WEST"

CARDINAL_DIRECTIONS == <<NORTH, EAST, SOUTH, WEST>>

Actions == {STOP, NORTH, EAST, SOUTH, WEST}

REVERSE_CARDINAL_DIRECTIONS(action) ==
    CASE action = NORTH -> SOUTH
      [] action = EAST -> WEST
      [] action = SOUTH -> NORTH
      [] action = WEST -> EAST
      [] OTHER -> None

\* Position(row, col)
Position(row, col) == <<row, col>>

CARDINAL_OFFSETS(action) ==
    CASE action = NORTH -> Position(-1, 0)
      [] action = EAST -> Position(0, 1)
      [] action = SOUTH -> Position(1, 0)
      [] action = WEST -> Position(0, -1)
      [] OTHER -> NoPosition

PositionAdd(p, offset) == Position(p[1] + offset[1], p[2] + offset[2])

\* Position.apply_action: a non-cardinal action leaves the position alone.
apply_action(p, action) ==
    IF CARDINAL_OFFSETS(action) = NoPosition THEN p
    ELSE PositionAdd(p, CARDINAL_OFFSETS(action))

\* Board._check_bounds(position, throw = False)
check_bounds(b, p) ==
    ~(p[1] < 0 \/ p[2] < 0 \/ p[1] >= b.height \/ p[2] >= b.width)

is_wall(b, p) == p \in b.walls

\* Board.get_neighbors: the actions, in CARDINAL_OFFSETS order, that lead to a
\* position inside the board that is not a wall.
RECURSIVE NeighborActions(_, _, _)
NeighborActions(b, p, i) ==
    IF i > Len(CARDINAL_DIRECTIONS) THEN <<>>
    ELSE LET a == CARDINAL_DIRECTIONS[i]
             n == PositionAdd(p, CARDINAL_OFFSETS(a))
         IN  IF check_bounds(b, n) /\ ~is_wall(b, n)
             THEN <<a>> \o NeighborActions(b, p, i + 1)
             ELSE NeighborActions(b, p, i + 1)

get_neighbors(b, p) == NeighborActions(b, p, 1)

\* Board.get_agent_position / get_agent_initial_position (NoPosition: not on the board)
get_agent_position(b, agent) == b.agents[agent]

get_agent_initial_position(b, agent) == b.initial[agent]

\* The agents whose marker is at the position.
AgentsAt(b, p) == {a \in DOMAIN b.agents : b.agents[a] = p}

\* Board.remove_marker / place_marker for an agent marker
RemoveAgent(b, agent) == [b EXCEPT !.agents[agent] = NoPosition]

PlaceAgent(b, agent, p) == [b EXCEPT !.agents[agent] = p]

RemovePellet(b, p) == [b EXCEPT !.pellets = @ \ {p}]

\* The board of a corridor: one open column of CorridorLen cells inside a
\* wall border.
CorridorCells == {Position(r, 1) : r \in 1..CorridorLen}

CorridorWalls ==
    {Position(r, c) : r \in 0..(CorridorLen + 1), c \in 0..2} \ CorridorCells

SeqRange(s) == {s[i] : i \in DOMAIN s}

SeqRemove(s, x) == SelectSeq(s, LAMBDA y : y # x)

-----------------------------------------------------------------------------
(* Legal actions: pacai.pacman.gamestate.GameState, with the dead agent rule
   of pacai.capture.gamestate.GameState. Called with an active agent. *)

\* _get_ghost_legal_actions: no STOP, no reversal unless nothing else is left.
ghost_legal_actions(actions, last) ==
    LET noStop == SeqRemove(actions, STOP)
        last_action == IF DictHas(last, agent_index) THEN DictGet(last, agent_index) ELSE STOP
        reverse_direction == REVERSE_CARDINAL_DIRECTIONS(last_action)
        kept == IF reverse_direction \in SeqRange(noStop) /\ Len(noStop) > 1
                THEN SeqRemove(noStop, reverse_direction)
                ELSE noStop
    IN  IF Len(kept) = 0 THEN <<STOP>> ELSE kept

get_legal_actions ==
    LET position == get_agent_position(board, agent_index)
    IN  IF position = NoPosition THEN <<STOP>>
        ELSE LET actions == <<STOP>> \o get_neighbors(board, position)
             IN  IF agent_index > 0
                 THEN ghost_legal_actions(actions, last_actions)
                 ELSE actions

\* pacai.core.gamestate.GameState.get_legal_actions: the base state.
core_get_legal_actions == <<>>

ACTION_EXIT == "EXIT"

\* pacai.gridworld.gamestate.GameState.get_legal_actions, on a board whose
\* terminal positions are given.
gridworld_get_legal_actions(terminal_positions) ==
    LET position == get_agent_position(board, agent_index)
    IN  IF position # NoPosition /\ position \in terminal_positions
        THEN <<ACTION_EXIT>>
        ELSE core_get_legal_actions

-----------------------------------------------------------------------------
(* pacai.capture.gamestate.GameState: teams, food, process_turn *)

FOOD_POINTS == 10

\* _team_modifier: -1 for the even team, +1 for the odd team.
team_modifier(agent) == ((agent % 2) * 2) - 1

\* _team_side(position = ...): position.row < board.width / 2
team_side(b, p) == IF p[1] * 2 < b.width THEN -1 ELSE 1

\* food_count(team_modifier = ...): the pellets on the other side.
food_count(b, tm) == Cardinality({p \in b.pellets : team_side(b, p) # tm})

\* The state after the pellet at p has been eaten by a team.
EatPellet(o, p, tm) ==
    LET b2 == RemovePellet(o.board, p)
    IN  [o EXCEPT !.board = b2,
                  !.score = @ + (tm * FOOD_POINTS),
                  !.game_over = @ \/ (food_count(b2, tm) = 0)]

\* GameState.process_turn(action) of the active agent: the outcomes
\* [board, score, game_over, err]. The markers of the cell moved onto are
\* visited in set order, which differs from run to run: with a pellet and
\* an opposing agent in the cell the pellet is eaten or not before the
\* agent branch is taken. That branch reads the local agent_index, which is
\* bound only by the capsule branch, so it raises.
ProcessTurnOutcomes(action) ==
    LET agent == agent_index
        tm == team_modifier(agent)
        old_position == get_agent_position(board, agent)
        new_position == IF old_position = NoPosition
                        THEN get_agent_initial_position(board, agent)
                        ELSE apply_action(old_position, action)
        start == [board |-> board, score |-> score, game_over |-> game_over, err |-> "none"]
    IN  IF new_position = NoPosition
        THEN {[start EXCEPT !.err = "ValueError: no initial position"]}
        ELSE LET moved == old_position # new_position
                 pellet == moved /\ new_position \in board.pellets
                 enemy == moved /\ \E a \in AgentsAt(board, new_position) :
                                       team_modifier(a) # tm
                 lifted == IF moved /\ old_position # NoPosition
                           THEN [start EXCEPT !.board = RemoveAgent(board, agent)]
                           ELSE start
                 eaten == IF pellet THEN EatPellet(lifted, new_position, tm) ELSE lifted
             IN  IF enemy
                 THEN {[o EXCEPT !.err = "UnboundLocalError"] : o \in {lifted, eaten}}
                 ELSE {[eaten EXCEPT !.board = PlaceAgent(eaten.board, agent, new_position)]}

-----------------------------------------------------------------------------
(* pacai.core.gamestate.GameState *)

\* game_start: the loop that issues the initial tickets.
RECURSIVE IssueTickets(_, _, _)
IssueTickets(md, i, tk) ==
    IF i > Len(md) THEN tk
    ELSE IssueTickets(md, i + 1, DictSet(tk, md[i].k, Ticket(md[i].k + md[i].v, 0, 0)))

\* A mutant: agents that are not on the board get no ticket.
RECURSIVE IssueTicketsOnBoard(_, _, _)
IssueTicketsOnBoard(md, i, tk) ==
    IF i > Len(md) THEN tk
    ELSE IF board.agents[md[i].k] = NoPosition
         THEN IssueTicketsOnBoard(md, i + 1, tk)
         ELSE IssueTicketsOnBoard(md, i + 1,
                  DictSet(tk, md[i].k, Ticket(md[i].k + md[i].v, 0, 0)))

InitialTickets_OnBoardOnly(md, tk) == IssueTicketsOnBoard(md, 1, tk)

InitialTickets(md, tk) == IssueTickets(md, 1, tk)

game_start ==
    /\ err = "none"
    /\ pc \in {"fresh", "restored"}
    /\ tickets' = InitialTickets(move_delays, tickets)
    /\ agent_index' = get_next_agent_index(tickets')
    /\ pc' = "started"
    /\ UNCHANGED <<board, game_over, last_actions, score, turn_count, move_delays,
                   timeout, history, result_score, max_turns, action_record, err, fn_in, fn_out, auxVars>>

\* self.agent_index = self.get_next_agent_index(), on a state that was
\* constructed with its tickets.
select_next_agent ==
    /\ err = "none"
    /\ pc = "restored"
    /\ agent_index = NoAgent
    /\ ~game_over
    /\ agent_index' = get_next_agent_index(tickets)
    /\ UNCHANGED <<board, game_over, last_actions, score, turn_count, move_delays,
                   tickets, timeout, history, result_score, max_turns, action_record, pc, err,
                   fn_in, fn_out, auxVars>>

\* A mutant: the move count is not incremented.
NextTurnCount_Same(n) == n

NextTurnCount(n) == n + 1

\* A mutant: every agent is issued a new ticket.
finish_turn_AllTickets(action) ==
    /\ err = "none"
    /\ pc \in {"started", "restored"}
    /\ agent_index # NoAgent
    /\ turn_count < MaxTurns
    /\ last_actions' = DictSet(last_actions, agent_index, action)
    /\ tickets' = [i \in DOMAIN tickets |->
                     [k |-> tickets[i].k,
                      v |-> TicketNext(tickets[i].v, DictGet(move_delays, tickets[i].k))]]
    /\ agent_index' = IF game_over THEN NoAgent ELSE get_next_agent_index(tickets')
    /\ turn_count' = NextTurnCount(turn_count)
    /\ UNCHANGED <<board, game_over, score, move_delays, timeout, history, result_score,
                   max_turns, action_record, pc, err, fn_in, fn_out, auxVars>>

\* A mutant: the next agent is selected even when the game is over.
finish_turn_SelectAlways(action) ==
    /\ err = "none"
    /\ pc \in {"started", "restored"}
    /\ agent_index # NoAgent
    /\ turn_count < MaxTurns
    /\ last_actions' = DictSet(last_actions, agent_index, action)
    /\ tickets' = DictSet(tickets, agent_index,
                          TicketNext(DictGet(tickets, agent_index),
                                     DictGet(move_delays, agent_index)))
    /\ agent_index' = get_next_agent_index(tickets')
    /\ turn_count' = NextTurnCount(turn_count)
    /\ UNCHANGED <<board, game_over, score, move_delays, timeout, history, result_score,
                   max_turns, action_record, pc, err, fn_in, fn_out, auxVars>>

finish_turn(action) ==
    /\ err = "none"
    /\ pc \in {"started", "restored"}
    /\ agent_index # NoAgent
    /\ turn_count < MaxTurns
    /\ last_actions' = DictSet(last_actions, agent_index, action)
    /\ tickets' = DictSet(tickets, agent_index,
                          TicketNext(DictGet(tickets, agent_index),
                                     DictGet(move_delays, agent_index)))
    /\ agent_index' = IF game_over THEN NoAgent ELSE get_next_agent_index(tickets')
    /\ turn_count' = NextTurnCount(turn_count)
    /\ UNCHANGED <<board, game_over, score, move_delays, timeout, history, result_score,
                   max_turns, action_record, pc, err, fn_in, fn_out, auxVars>>

\* finish_turn with no active agent: the last action is stored under -1 and
\* the ticket lookup raises.
finish_turn_no_agent(action) ==
    /\ err = "none"
    /\ pc \in {"started", "restored"}
    /\ agent_index = NoAgent
    /\ last_actions' = DictSet(last_actions, agent_index, action)
    /\ err' = "KeyError"
    /\ UNCHANGED <<board, agent_index, game_over, score, turn_count, move_delays,
                   tickets, timeout, history, result_score, max_turns, action_record, pc,
                   fn_in, fn_out, auxVars>>

process_agent_crash(agent) ==
    /\ err = "none"
    /\ pc \in {"started", "restored"}
    /\ ~game_over
    /\ game_over' = TRUE
    /\ UNCHANGED <<board, agent_index, last_actions, score, turn_count, move_delays,
                   tickets, timeout, history, result_score, max_turns, action_record, pc, err,
                   fn_in, fn_out, auxVars>>

process_game_timeout ==
    /\ err = "none"
    /\ pc \in {"started", "restored"}
    /\ ~game_over
    /\ game_over' = TRUE
    /\ UNCHANGED <<board, agent_index, last_actions, score, turn_count, move_delays,
                   tickets, timeout, history, result_score, max_turns, action_record, pc, err,
                   fn_in, fn_out, auxVars>>

-----------------------------------------------------------------------------
(* pacai.core.agentaction.AgentActionRecord and
   pacai.core.game.Game.process_turn *)

AgentActionRecord(agent, agent_action, crashed) ==
    [agent_index |-> agent, agent_action |-> agent_action, crashed |-> crashed]

\* What an agent's own get_action does: it returns an action or it raises.
Raises == "raises"

AgentReplies == Actions \cup {Raises}

\* A mutant: a raise is not marked as a crash.
GuardedRecord_NoCrashFlag(agent, agent_reply) ==
    AgentActionRecord(agent, IF agent_reply = Raises THEN STOP ELSE agent_reply, FALSE)

\* The guarded call of NoneIsolator.get_action and of _get_action: the record
\* built from what the agent did.
GuardedRecord(agent, agent_reply) ==
    IF agent_reply = Raises
    THEN AgentActionRecord(agent, STOP, TRUE)
    ELSE AgentActionRecord(agent, agent_reply, FALSE)

\* AgentActionRecord.get_action: STOP if there is no action.
get_action(record) ==
    IF record.agent_action = None THEN STOP ELSE record.agent_action

\* A mutant: the legality check is skipped.
action_is_legal_NoCheck(action) == TRUE

\* action in state.get_legal_actions()
action_is_legal(action) == action \in SeqRange(get_legal_actions)

\* The effect of Game.process_turn on the state and on err.
GameProcessTurnEffect(action) ==
    IF agent_index = NoAgent
    THEN /\ err' = "ValueError: no agent is active"
         /\ UNCHANGED <<board, score, game_over>>
    ELSE IF ~action_is_legal(action)
    THEN /\ err' = "ValueError: illegal action"
         /\ UNCHANGED <<board, score, game_over>>
    ELSE \E o \in ProcessTurnOutcomes(action) :
            /\ board' = o.board
            /\ score' = o.score
            /\ game_over' = o.game_over
            /\ err' = o.err

\* A caller applies an action to the state through Game.process_turn.
Game_process_turn(action) ==
    /\ err = "none"
    /\ pc \in {"started", "restored"}
    /\ action_record' = AgentActionRecord(agent_index, action, FALSE)
    /\ GameProcessTurnEffect(get_action(action_record'))
    /\ UNCHANGED <<agent_index, last_actions, turn_count, move_delays, tickets,
                   timeout, history, result_score, max_turns, pc, fn_in, fn_out, auxVars>>

-----------------------------------------------------------------------------
(* The states a GameState is constructed in. *)

DelayValues == {1, 2, 3, 50, 100, 200}

Entry(key, value) == [k |-> key, v |-> value]

\* move_delays of one or two agents, in either insertion order.
MoveDelayDicts ==
    {<<Entry(0, d)>> : d \in DelayValues}
    \cup {<<Entry(0, d[1]), Entry(1, d[2])>> : d \in DelayValues \X DelayValues}
    \cup {<<Entry(1, d[2]), Entry(0, d[1])>> : d \in DelayValues \X DelayValues}

PlainDelays == <<Entry(0, 1), Entry(1, 2)>>

\* Agent 0 is due first, or agent 1 is.
RunDelays == {PlainDelays, <<Entry(0, 3), Entry(1, 1)>>}

BoardAgents == {0, 1}

CorridorBoard(initial, agents, pellets) ==
    [height |-> CorridorLen + 2, width |-> 3, walls |-> CorridorWalls,
     pellets |-> pellets, initial |-> initial, agents |-> agents]

\* A board that holds none of the agents.
EmptyBoard ==
    LET i == [a \in BoardAgents |-> NoPosition]
    IN  CorridorBoard(i, i, CorridorCells)

\* Boards as loaded: every agent the board holds is at its initial position
\* (an agent may be missing from the board), with no pellet or a pellet in
\* every cell that holds no agent.
LoadedBoards ==
    UNION {{CorridorBoard(i, i, {}),
            CorridorBoard(i, i, CorridorCells \ {i[a] : a \in BoardAgents})} :
              i \in [BoardAgents -> CorridorCells \cup {NoPosition}]}

\* Boards of a game under way: the agents start at the two ends, and an
\* agent may be off the board, waiting to respawn.
RestoredBoards ==
    LET i == [a \in BoardAgents |-> IF a = 0 THEN Position(1, 1)
                                             ELSE Position(CorridorLen, 1)]
    IN  {CorridorBoard(i, a, CorridorCells \ {i[0], i[1]}) :
            a \in {f \in [BoardAgents -> CorridorCells \cup {NoPosition}] :
                     \A x \in BoardAgents : f[x] \in {i[x], NoPosition}}}

\* Boards as loaded with both agents on them, at the two ends.
IsolatedBoards ==
    {b \in LoadedBoards : /\ b.initial[0] = Position(1, 1)
                          /\ b.initial[1] = Position(CorridorLen, 1)}

\* GameState(board, agent_infos): nothing issued yet.
FreshState(b, md) ==
    /\ board = b
    /\ move_delays = md
    /\ tickets = <<>>
    /\ agent_index = NoAgent
    /\ game_over = FALSE
    /\ last_actions = <<>>
    /\ score = 0
    /\ turn_count = 0
    /\ timeout = FALSE

\* GameState(board, move_delays, tickets): each agent due at its move delay.
RestoredState(b, md) ==
    /\ board = b
    /\ move_delays = md
    /\ tickets = [i \in DOMAIN md |-> Entry(md[i].k, Ticket(md[i].v, 0, 0))]
    /\ agent_index = NoAgent
    /\ game_over = FALSE
    /\ last_actions = <<>>
    /\ score = 0
    /\ turn_count = 0
    /\ timeout = FALSE

\* No successor has been generated.
NoSuccessor == [value |-> None]

\* An isolator as constructed: nothing held.
EmptyIsolator ==
    [agents |-> {}, processes |-> {}, message_queues |-> {}, action_queues |-> {},
     closed |-> {}, joined |-> {}, close_calls |-> 0]

NoIsolator ==
    /\ level = "none"
    /\ isolator = EmptyIsolator
    /\ workers = <<>>
    /\ channels = <<>>
    /\ reply = None

\* No result was saved and no agent is scripted.
NoReplay ==
    /\ replay_info = [board_source |-> <<>>, agent_infos |-> <<>>, history |-> <<>>]
    /\ scripted_actions = <<>>

\* No random generator is read and no user input is tracked.
NoIO ==
    /\ rng = [seed |-> 0, state |-> 0]
    /\ agent_user_inputs = <<>>
    /\ ui_log = [seen |-> <<>>, handed |-> <<>>]
    /\ NoReplay

NoEngine ==
    /\ NoIsolator
    /\ successor = NoSuccessor
    /\ history = <<>>
    /\ result_score = 0
    /\ is_replay = FALSE
    /\ NoIO
    /\ max_turns = -1
    /\ action_record = AgentActionRecord(NoAgent, None, FALSE)
    /\ err = "none"
    /\ fn_in = [fn |-> "none"]
    /\ fn_out = None

Init ==
    /\ NoEngine
    /\ \/ /\ pc = "fresh"
          /\ \E md \in MoveDelayDicts : FreshState(EmptyBoard, md)
       \/ /\ pc = "fresh"
          /\ \E b \in LoadedBoards : FreshState(b, PlainDelays)
       \/ /\ pc = "restored"
          /\ \E md \in MoveDelayDicts : RestoredState(EmptyBoard, md)
       \/ /\ pc = "restored"
          /\ \E b \in RestoredBoards : RestoredState(b, PlainDelays)

Next ==
    \/ game_start
    \/ select_next_agent
    \/ finish_turn(get_action(action_record))
    \/ finish_turn_no_agent(get_action(action_record))
    \/ \E a \in Actions : Game_process_turn(a)
    \/ \E i \in DictKeys(move_delays) : process_agent_crash(i)
    \/ process_game_timeout

Spec == Init /\ [][Next]_vars

-----------------------------------------------------------------------------
(* GameState.generate_sucessor, as GreedyAgent.get_action uses it. An object
   is a value and the fields it shares with the state it was copied from. *)

MaxMutations == 1
MaxSuccessorTurns == 2

StateFields ==
    {"board", "agent_index", "game_over", "last_actions", "score", "turn_count",
     "move_delays", "tickets"}

\* The fields that hold a mutable object (the board, the dicts).
MutableFields == {"board", "last_actions", "move_delays", "tickets"}

StateValue ==
    [board |-> board, agent_index |-> agent_index, game_over |-> game_over,
     last_actions |-> last_actions, score |-> score, turn_count |-> turn_count,
     move_delays |-> move_delays, tickets |-> tickets]

\* A mutant: copy.copy, the copy holds the same board and dicts as the state.
deepcopy_Shallow(value) == [value |-> value, shared |-> MutableFields, mutations |-> 0]

\* copy.deepcopy(self): no object of the copy is an object of the state.
deepcopy(value) == [value |-> value, shared |-> {}, mutations |-> 0]

\* A write to the board of a copy reaches the state's board when the two
\* are one object.
BoardAfterWrite(copy, new_board) ==
    IF "board" \in copy.shared THEN new_board ELSE board

generate_sucessor(action) ==
    /\ err = "none"
    /\ pc = "started"
    /\ agent_index # NoAgent
    /\ action_is_legal(action)
    /\ \E o \in ProcessTurnOutcomes(action) :
          LET copy == deepcopy(StateValue)
          IN  /\ successor' = [copy EXCEPT !.value.board = o.board,
                                             !.value.score = o.score,
                                             !.value.game_over = o.game_over]
              /\ board' = BoardAfterWrite(copy, o.board)
              /\ err' = o.err
    /\ UNCHANGED <<agent_index, game_over, last_actions, score, turn_count,
                   move_delays, tickets, timeout, history, result_score, max_turns, action_record,
                   pc, fn_in, fn_out, level, isolator, workers, channels, reply,
                   is_replay, ioVars>>

\* The holder of a successor writes to its board: a marker is removed.
mutate_successor_board ==
    /\ err = "none"
    /\ successor # NoSuccessor
    /\ successor.mutations < MaxMutations
    /\ \E new_board \in {RemovePellet(successor.value.board, p) :
                            p \in successor.value.board.pellets}
                       \cup {RemoveAgent(successor.value.board, a) :
                               a \in {x \in BoardAgents :
                                        successor.value.board.agents[x] # NoPosition}} :
          /\ successor' = [successor EXCEPT !.value.board = new_board,
                                            !.mutations = @ + 1]
          /\ board' = BoardAfterWrite(successor, new_board)
    /\ UNCHANGED <<agent_index, game_over, last_actions, score, turn_count,
                   move_delays, tickets, timeout, history, result_score, max_turns, action_record,
                   pc, err, fn_in, fn_out, level, isolator, workers, channels, reply,
                   is_replay, ioVars>>

InitSuccessor ==
    /\ NoEngine
    /\ pc = "fresh"
    /\ \E b \in LoadedBoards, md \in RunDelays : FreshState(b, md)

\* Turns are played until a successor is held, then the successor is used.
PlayingTurns == successor = NoSuccessor /\ turn_count < MaxSuccessorTurns

NextSuccessor ==
    \/ game_start
    \/ PlayingTurns /\ \E a \in Actions : Game_process_turn(a)
    \/ PlayingTurns /\ finish_turn(get_action(action_record))
    \/ \E a \in Actions : generate_sucessor(a)
    \/ mutate_successor_board

SpecSuccessor == InitSuccessor /\ [][NextSuccessor]_vars

-----------------------------------------------------------------------------
(* Ticket and the scheduler's selection as functions of their arguments. *)

AgentIds == 0..(MaxAgents - 1)

\* Tickets as a test writes them; next_time may be negative.
TicketValues ==
    {Ticket(n, l, m) : n \in (-1)..MaxTime, l \in 0..MaxTime, m \in 0..MaxTime}

SmallTickets == {Ticket(n, l, m) : n \in 0..1, l \in 0..1, m \in 0..1}

\* The sequences of distinct agent ids: the key orders of a ticket dict.
RECURSIVE KeyOrders(_)
KeyOrders(n) ==
    IF n = 0 THEN {<<>>}
    ELSE {Append(s, a) : s \in KeyOrders(n - 1), a \in AgentIds}

DistinctKeyOrders ==
    {s \in UNION {KeyOrders(n) : n \in 1..MaxAgents} :
        \A i, j \in DOMAIN s : i # j => s[i] # s[j]}

TicketDicts ==
    UNION {{[i \in DOMAIN ks |-> Entry(ks[i], vs[i])] :
              vs \in [DOMAIN ks -> SmallTickets]} : ks \in DistinctKeyOrders}

NoGame ==
    /\ FreshState(EmptyBoard, <<>>)
    /\ NoIsolator
    /\ successor = NoSuccessor
    /\ history = <<>>
    /\ result_score = 0
    /\ is_replay = FALSE
    /\ NoIO
    /\ max_turns = -1
    /\ action_record = AgentActionRecord(NoAgent, None, FALSE)
    /\ err = "none"

InitTicket ==
    /\ NoGame
    /\ pc = "call"
    /\ fn_out = None
    /\ \/ \E a \in TicketValues, b \in TicketValues :
             fn_in = [fn |-> "lt", a |-> a, b |-> b]
       \/ \E t \in TicketValues, d \in DelayValues :
             fn_in = [fn |-> "next", t |-> t, move_delay |-> d]
       \/ \E tk \in TicketDicts :
             fn_in = [fn |-> "get_next_agent_index", tk |-> tk]

Return(value) ==
    /\ pc' = "ret"
    /\ fn_out' = value
    /\ UNCHANGED <<stateVars, history, result_score, max_turns, action_record, err, fn_in, auxVars>>

\* lower_ticket < higher_ticket, both ways round.
CallTicketLT ==
    /\ pc = "call"
    /\ fn_in.fn = "lt"
    /\ Return([ab |-> TicketLT(fn_in.a, fn_in.b), ba |-> TicketLT(fn_in.b, fn_in.a)])

CallTicketNext ==
    /\ pc = "call"
    /\ fn_in.fn = "next"
    /\ Return(TicketNext(fn_in.t, fn_in.move_delay))

CallGetNextAgentIndex ==
    /\ pc = "call"
    /\ fn_in.fn = "get_next_agent_index"
    /\ Return(get_next_agent_index(fn_in.tk))

NextTicket == CallTicketLT \/ CallTicketNext \/ CallGetNextAgentIndex

SpecTicket == InitTicket /\ [][NextTicket]_vars

-----------------------------------------------------------------------------
(* pacai.core.game.Game.run: the game loop. The UI calls leave the state
   alone and are left out. *)

MaxRecords == 4

\* GameInfo.max_turns: no budget, an empty budget, a budget of two turns.
RunMaxTurns == {-1, 0, 2}

InitRun ==
    /\ pc = "isolator.init_agents"
    /\ NoIsolator
    /\ successor = NoSuccessor
    /\ history = <<>>
    /\ result_score = 0
    /\ is_replay \in BOOLEAN
    /\ NoIO
    /\ max_turns \in RunMaxTurns
    /\ action_record = AgentActionRecord(NoAgent, None, FALSE)
    /\ err = "none"
    /\ fn_in = [fn |-> "none"]
    /\ fn_out = None
    /\ \E b \in LoadedBoards, md \in RunDelays : FreshState(b, md)

\* isolator = level.get_isolator(); isolator.init_agents(agent_infos), with
\* the same-process backend: one agent is loaded for each agent info.
Run_isolator_init_agents ==
    /\ pc = "isolator.init_agents"
    /\ isolator' = [isolator EXCEPT !.agents = DictKeys(move_delays)]
    /\ pc' = "state.game_start"
    /\ UNCHANGED <<stateVars, history, result_score, max_turns, action_record, err, fn_in, fn_out,
                   level, workers, channels, reply, successor, is_replay, ioVars>>

\* state = self.get_initial_state(...); state.game_start()
Run_state_game_start ==
    /\ pc = "state.game_start"
    /\ tickets' = InitialTickets(move_delays, tickets)
    /\ agent_index' = get_next_agent_index(tickets')
    /\ pc' = "isolator.game_start"
    /\ UNCHANGED <<board, game_over, last_actions, score, turn_count, move_delays,
                   timeout, history, result_score, max_turns, action_record, err, fn_in, fn_out, auxVars>>

\* records = isolator.game_start(rng, state): the agents are told of the
\* start, and the records they answer with hold no state of the game.
Run_isolator_game_start ==
    /\ pc = "isolator.game_start"
    /\ pc' = "loop"
    /\ UNCHANGED <<stateVars, history, result_score, max_turns, action_record, err, fn_in, fn_out, auxVars>>

\* while ((max_turns < 0) or (state.turn_count < max_turns))
Run_loop_test ==
    /\ pc = "loop"
    /\ Len(history) < MaxRecords
    /\ pc' = IF max_turns < 0 \/ turn_count < max_turns THEN "get_action" ELSE "exit"
    /\ UNCHANGED <<stateVars, history, result_score, max_turns, action_record, err, fn_in, fn_out, auxVars>>

\* action_record = isolator.get_action(state, user_inputs): the agent
\* answers with any action, or crashes and the record holds no action.
Run_isolator_get_action ==
    /\ pc = "get_action"
    /\ IF agent_index = NoAgent
       THEN /\ err' = "ValueError: no active agent"
            /\ pc' = "raised"
            /\ UNCHANGED <<action_record, reply>>
       ELSE /\ reply' \in AgentReplies
            /\ action_record' = GuardedRecord(agent_index, reply')
            /\ pc' = "process_turn"
            /\ UNCHANGED err
    /\ UNCHANGED <<stateVars, history, result_score, max_turns, fn_in, fn_out, level, isolator,
                   workers, channels, successor, is_replay, ioVars>>

\* state = self.process_turn(state, action_record)
Run_process_turn ==
    /\ pc = "process_turn"
    /\ GameProcessTurnEffect(get_action(action_record))
    /\ pc' = IF err' = "none" THEN "result.update" ELSE "raised"
    /\ UNCHANGED <<agent_index, last_actions, turn_count, move_delays, tickets,
                   timeout, history, result_score, max_turns, action_record, fn_in, fn_out, auxVars>>

Run_result_update_KeepLast ==
    /\ pc = "result.update"
    /\ result_score' = score
    /\ history' = <<action_record>>
    /\ pc' = "check_end"
    /\ UNCHANGED <<stateVars, max_turns, action_record, err, fn_in, fn_out, auxVars>>

\* result.update(state, action_record)
Run_result_update ==
    /\ pc = "result.update"
    /\ result_score' = score
    /\ history' = Append(history, action_record)
    /\ pc' = "check_end"
    /\ UNCHANGED <<stateVars, max_turns, action_record, err, fn_in, fn_out, auxVars>>

\* game_over = self.check_end(state); if (game_over): break
Run_check_end ==
    /\ pc = "check_end"
    /\ pc' = IF game_over THEN "exit" ELSE "loop"
    /\ UNCHANGED <<stateVars, history, result_score, max_turns, action_record, err, fn_in, fn_out, auxVars>>

Run_mark_timeout_Always ==
    /\ pc = "exit"
    /\ game_over' = TRUE
    /\ timeout' = TRUE
    /\ pc' = "isolator.game_complete"
    /\ UNCHANGED <<board, agent_index, last_actions, score, turn_count, move_delays,
                   tickets, history, result_score, max_turns, action_record, err, fn_in, fn_out, auxVars>>

\* After the loop: a game that did not end by itself is marked as timed out.
Run_mark_timeout ==
    /\ pc = "exit"
    /\ game_over' = TRUE
    /\ timeout' = (timeout \/ (~game_over /\ ~is_replay))
    /\ pc' = "isolator.game_complete"
    /\ UNCHANGED <<board, agent_index, last_actions, score, turn_count, move_delays,
                   tickets, history, result_score, max_turns, action_record, err, fn_in, fn_out, auxVars>>

Run_isolator_game_complete_Resume ==
    /\ pc = "isolator.game_complete"
    /\ pc' = "get_action"
    /\ UNCHANGED <<stateVars, history, result_score, max_turns, action_record, err, fn_in, fn_out, auxVars>>

\* isolator.game_complete(state); self.game_complete(state, result)
Run_isolator_game_complete ==
    /\ pc = "isolator.game_complete"
    /\ pc' = "isolator.close"
    /\ UNCHANGED <<stateVars, history, result_score, max_turns, action_record, err, fn_in, fn_out, auxVars>>

\* isolator.close(): self._agents.clear()
Run_isolator_close ==
    /\ pc = "isolator.close"
    /\ isolator' = [isolator EXCEPT !.agents = {}]
    /\ pc' = "done"
    /\ UNCHANGED <<stateVars, history, result_score, max_turns, action_record, err, fn_in, fn_out,
                   level, workers, channels, reply, successor, is_replay, ioVars>>

NextRun ==
    \/ Run_isolator_init_agents
    \/ Run_state_game_start
    \/ Run_isolator_game_start
    \/ Run_loop_test
    \/ Run_isolator_get_action
    \/ Run_process_turn
    \/ Run_result_update
    \/ Run_check_end
    \/ Run_mark_timeout
    \/ Run_isolator_game_complete
    \/ Run_isolator_close

SpecRun == InitRun /\ [][NextRun]_vars

-----------------------------------------------------------------------------
(* Game.run over the three isolators: pacai.core.isolation.none.NoneIsolator,
   pacai.core.isolation.tcp.TCPIsolator (a NoneIsolator by inheritance) and
   pacai.core.isolation.process.ProcessIsolator with its agent processes.
   The agent is any code: a call into it returns, raises or never returns,
   and its get_action may write to the state object it is handed, as
   CheatingAgent does. *)

MaxRequests == 2
MaxCloseCalls == 2

\* pacai.core.isolation.Level
IsolationLevels == {"none", "process", "tcp"}

\* The levels whose isolator runs the agent in the engine's process.
SameProcess == level \in {"none", "tcp"}

MESSAGE_TYPE_START == "start"
MESSAGE_TYPE_ACTION == "action"
MESSAGE_TYPE_COMPLETE == "complete"

\* What CheatingAgent writes to state.score.
CHEAT_SCORE == 1000

\* The state as it crosses a queue: pickled on put, a new object on get.
PickledState == [agent_index |-> agent_index, score |-> score, game_over |-> game_over]

NoState == [agent_index |-> NoAgent, score |-> 0, game_over |-> FALSE]

Message(type) == [type |-> type, state |-> PickledState]

\* What a call into agent code does.
AgentOutcomes == {"returns", "raises", "hangs"}

\* Positions of an agent process that has ended.
Finished == {"exited", "raised", "terminated", "killed"}

\* The keys of a dict in insertion order.
DictKeySeq(d) == [i \in DOMAIN d |-> d[i].k]

InitIsolated ==
    /\ pc = "isolator.init_agents"
    /\ level \in IsolationLevels
    /\ isolator = EmptyIsolator
    /\ workers = <<>>
    /\ channels = <<>>
    /\ reply = None
    /\ successor = NoSuccessor
    /\ history = <<>>
    /\ result_score = 0
    /\ is_replay = FALSE
    /\ NoIO
    /\ max_turns \in {-1, 0}
    /\ action_record = AgentActionRecord(NoAgent, None, FALSE)
    /\ err = "none"
    /\ fn_in = [fn |-> "none"]
    /\ fn_out = None
    /\ \E b \in IsolatedBoards, md \in RunDelays : FreshState(b, md)

-----------------------------------------------------------------------------
(* NoneIsolator, and TCPIsolator which inherits every method of it. *)

NoneIsolator_init_agents ==
    /\ pc = "isolator.init_agents"
    /\ SameProcess
    /\ isolator' = [isolator EXCEPT !.agents = DictKeys(move_delays)]
    /\ pc' = "state.game_start"
    /\ UNCHANGED <<stateVars, history, result_score, max_turns, action_record, err, fn_in, fn_out,
                   level, workers, channels, reply, successor, is_replay, ioVars>>

\* agent.game_start(agent_index, suggested_seed, initial_state) for each
\* agent in turn, in the engine's thread: the first to raise ends the call.
NoneIsolator_game_start ==
    /\ pc = "isolator.game_start"
    /\ SameProcess
    /\ \E outcome \in {"returns", "raises"} :
          /\ pc' = IF outcome = "returns" THEN "loop" ELSE "raised"
          /\ err' = IF outcome = "returns" THEN err ELSE "agent exception"
    /\ UNCHANGED <<stateVars, history, result_score, max_turns, action_record, fn_in, fn_out, auxVars>>

\* The agent runs on the engine's own state object: what it writes to the
\* object is written to the engine's state.
NoneIsolator_get_action ==
    /\ pc = "get_action"
    /\ SameProcess
    /\ IF agent_index = NoAgent
       THEN /\ err' = "ValueError: no active agent"
            /\ pc' = "raised"
            /\ UNCHANGED <<action_record, reply, score, game_over>>
       ELSE /\ reply' \in AgentReplies
            /\ \E cheats \in BOOLEAN :
                  /\ score' = IF cheats THEN CHEAT_SCORE ELSE score
                  /\ game_over' = IF cheats THEN TRUE ELSE game_over
            /\ action_record' = GuardedRecord(agent_index, reply')
            /\ pc' = "process_turn"
            /\ UNCHANGED err
    /\ UNCHANGED <<board, agent_index, last_actions, turn_count, move_delays, tickets,
                   timeout, history, result_score, max_turns, fn_in, fn_out, level, isolator,
                   workers, channels, successor, is_replay, ioVars>>

NoneIsolator_game_complete ==
    /\ pc = "isolator.game_complete"
    /\ SameProcess
    /\ \E outcome \in {"returns", "raises"} :
          /\ pc' = IF outcome = "returns" THEN "isolator.close" ELSE "raised"
          /\ err' = IF outcome = "returns" THEN err ELSE "agent exception"
    /\ UNCHANGED <<stateVars, history, result_score, max_turns, action_record, fn_in, fn_out, auxVars>>

\* close() as Game.run calls it, once more after it returned or raised, or
\* on an isolator whose init_agents never ran.
CloseCalled ==
    IF pc = "done" \/ (pc = "raised" /\ err = "ValueError: Queue is closed")
    THEN isolator.close_calls < MaxCloseCalls
    ELSE pc \in {"isolator.init_agents", "isolator.close"}

NoneIsolator_close ==
    /\ CloseCalled
    /\ SameProcess
    /\ isolator' = [isolator EXCEPT !.agents = {}, !.close_calls = @ + 1]
    /\ pc' = "done"
    /\ UNCHANGED <<stateVars, history, result_score, max_turns, action_record, err, fn_in, fn_out,
                   level, workers, channels, reply, successor, is_replay, ioVars>>

-----------------------------------------------------------------------------
(* ProcessIsolator: the engine's side. *)

\* Two queues and a started process for each agent.
ProcessIsolator_init_agents ==
    /\ pc = "isolator.init_agents"
    /\ level = "process"
    /\ LET agents == DictKeys(move_delays)
       IN  /\ isolator' = [isolator EXCEPT !.processes = agents,
                                           !.message_queues = agents,
                                           !.action_queues = agents]
           /\ workers' = [a \in agents |-> [at |-> "load", state |-> NoState,
                                              started |-> FALSE]]
           /\ channels' = [a \in agents |-> [message |-> <<>>, action |-> <<>>]]
    /\ pc' = "state.game_start"
    /\ UNCHANGED <<stateVars, history, result_score, max_turns, action_record, err, fn_in, fn_out,
                   level, reply, successor, is_replay, ioVars>>

ProcessIsolator_game_start_ActiveOnly ==
    /\ pc = "isolator.game_start"
    /\ level = "process"
    /\ channels' = [a \in DOMAIN channels |->
                      IF a = agent_index
                      THEN [channels[a] EXCEPT
                                !.message = Append(@, Message(MESSAGE_TYPE_START))]
                      ELSE channels[a]]
    /\ pc' = "loop"
    /\ UNCHANGED <<stateVars, history, result_score, max_turns, action_record, err, fn_in, fn_out,
                   level, isolator, workers, reply, successor, is_replay, ioVars>>

\* queue.put((MESSAGE_TYPE_START, ...), False) on every message queue.
ProcessIsolator_game_start ==
    /\ pc = "isolator.game_start"
    /\ level = "process"
    /\ channels' = [a \in DOMAIN channels |->
                      IF a \in isolator.message_queues
                      THEN [channels[a] EXCEPT
                                !.message = Append(@, Message(MESSAGE_TYPE_START))]
                      ELSE channels[a]]
    /\ pc' = "loop"
    /\ UNCHANGED <<stateVars, history, result_score, max_turns, action_record, err, fn_in, fn_out,
                   level, isolator, workers, reply, successor, is_replay, ioVars>>

\* message_queue.put((MESSAGE_TYPE_ACTION, (state, user_inputs)), False)
ProcessIsolator_get_action_put ==
    /\ pc = "get_action"
    /\ level = "process"
    /\ IF agent_index \in isolator.message_queues
       THEN /\ channels' = [channels EXCEPT ![agent_index].message =
                                Append(@, Message(MESSAGE_TYPE_ACTION))]
            /\ pc' = "action_queue.get"
            /\ UNCHANGED err
       ELSE /\ err' = "KeyError"
            /\ pc' = "raised"
            /\ UNCHANGED channels
    /\ UNCHANGED <<stateVars, history, result_score, max_turns, action_record, fn_in, fn_out,
                   level, isolator, workers, reply, successor, is_replay, ioVars>>

\* return action_queue.get(True): blocks, with no timeout, until the agent
\* process has put a record.
ProcessIsolator_get_action_get ==
    /\ pc = "action_queue.get"
    /\ channels[agent_index].action # <<>>
    /\ action_record' = Head(channels[agent_index].action)
    /\ channels' = [channels EXCEPT ![agent_index].action = Tail(@)]
    /\ pc' = "process_turn"
    /\ UNCHANGED <<stateVars, history, result_score, max_turns, err, fn_in, fn_out,
                   level, isolator, workers, reply, successor, is_replay, ioVars>>

\* queue.put((MESSAGE_TYPE_COMPLETE, final_state), False) on every queue.
ProcessIsolator_game_complete ==
    /\ pc = "isolator.game_complete"
    /\ level = "process"
    /\ channels' = [a \in DOMAIN channels |->
                      IF a \in isolator.message_queues
                      THEN [channels[a] EXCEPT
                                !.message = Append(@, Message(MESSAGE_TYPE_COMPLETE))]
                      ELSE channels[a]]
    /\ pc' = "isolator.close"
    /\ UNCHANGED <<stateVars, history, result_score, max_turns, action_record, err, fn_in, fn_out,
                   level, isolator, workers, reply, successor, is_replay, ioVars>>

\* close(), first loop: queue.close() on every message queue.
ProcessIsolator_close_queues ==
    /\ CloseCalled
    /\ level = "process"
    /\ isolator' = [isolator EXCEPT !.closed = isolator.message_queues, !.joined = {},
                                    !.close_calls = @ + 1]
    /\ pc' = "close.empty"
    /\ err' = "none"
    /\ UNCHANGED <<stateVars, history, result_score, max_turns, action_record, fn_in, fn_out,
                   level, workers, channels, reply, successor, is_replay, ioVars>>

\* close(), second loop, over the message queues again: a queue that still
\* holds a message is not empty(), and get(False) on a closed queue raises
\* ValueError.
ProcessIsolator_close_empty ==
    /\ pc = "close.empty"
    /\ IF \E a \in isolator.message_queues : channels[a].message # <<>>
       THEN /\ err' = "ValueError: Queue is closed"
            /\ pc' = "raised"
       ELSE /\ pc' = "close.join"
            /\ UNCHANGED err
    /\ UNCHANGED <<stateVars, history, result_score, max_turns, action_record, fn_in, fn_out, auxVars>>

\* The next process of close()'s third loop, in dict order.
NextToJoin ==
    LET keys == DictKeySeq(move_delays)
        left == {i \in DOMAIN keys : /\ keys[i] \in isolator.processes
                                     /\ keys[i] \notin isolator.joined}
    IN  IF left = {} THEN NoAgent
        ELSE keys[CHOOSE i \in left : \A j \in left : i <= j]

\* _join_process(process): join(JOIN_WAIT_SECS); a process still alive is
\* terminated and joined for REAP_WAIT_SECS; one still alive then is killed.
join_process(a) ==
    /\ pc = "close.join"
    /\ a = NextToJoin
    /\ IF workers[a].at \in Finished
       THEN UNCHANGED workers
       ELSE \E lands \in BOOLEAN :
               workers' = [workers EXCEPT ![a].at = IF lands THEN "terminated"
                                                             ELSE "killed"]
    /\ isolator' = [isolator EXCEPT !.joined = @ \cup {a}]
    /\ UNCHANGED <<stateVars, history, result_score, max_turns, action_record, pc, err, fn_in, fn_out,
                   level, channels, reply, successor, is_replay, ioVars>>

\* close(), the end: the three dicts are cleared.
ProcessIsolator_close_clear ==
    /\ pc = "close.join"
    /\ NextToJoin = NoAgent
    /\ isolator' = [EmptyIsolator EXCEPT !.close_calls = isolator.close_calls]
    /\ pc' = "done"
    /\ UNCHANGED <<stateVars, history, result_score, max_turns, action_record, err, fn_in, fn_out,
                   level, workers, channels, reply, successor, is_replay, ioVars>>

-----------------------------------------------------------------------------
(* ProcessIsolator: the agent process, _agent_handler. *)

\* agent = pacai.core.agent.load(agent_info): an exception ends the process.
agent_handler_load(a) ==
    /\ a \in DOMAIN workers
    /\ workers[a].at = "load"
    /\ \E outcome \in {"returns", "raises"} :
          workers' = [workers EXCEPT ![a].at = IF outcome = "returns" THEN "get"
                                                                       ELSE "raised"]
    /\ UNCHANGED <<stateVars, history, result_score, max_turns, action_record, pc, err, fn_in, fn_out,
                   level, isolator, channels, reply, successor, is_replay, ioVars>>

agent_handler_get_Last(a) ==
    /\ a \in DOMAIN workers
    /\ workers[a].at = "get"
    /\ channels[a].message # <<>>
    /\ LET message == channels[a].message[Len(channels[a].message)]
       IN  workers' = [workers EXCEPT ![a].at = message.type, ![a].state = message.state]
    /\ channels' = [channels EXCEPT ![a].message = SubSeq(@, 1, Len(@) - 1)]
    /\ UNCHANGED <<stateVars, history, result_score, max_turns, action_record, pc, err, fn_in, fn_out,
                   level, isolator, reply, successor, is_replay, ioVars>>

\* (message_type, payload) = message_queue.get(True)
agent_handler_get(a) ==
    /\ a \in DOMAIN workers
    /\ workers[a].at = "get"
    /\ channels[a].message # <<>>
    /\ LET message == Head(channels[a].message)
       IN  workers' = [workers EXCEPT ![a].at = message.type, ![a].state = message.state]
    /\ channels' = [channels EXCEPT ![a].message = Tail(@)]
    /\ UNCHANGED <<stateVars, history, result_score, max_turns, action_record, pc, err, fn_in, fn_out,
                   level, isolator, reply, successor, is_replay, ioVars>>

\* Where a call into agent code leaves the process: back at the queue, ended
\* by the exception, or in the call for good.
AfterAgentCall(outcome, returned) ==
    IF outcome = "returns" THEN returned
    ELSE IF outcome = "raises" THEN "raised" ELSE "hung"

\* MESSAGE_TYPE_START: agent.game_start(...), unguarded.
agent_handler_start(a) ==
    /\ a \in DOMAIN workers
    /\ workers[a].at = MESSAGE_TYPE_START
    /\ \E outcome \in AgentOutcomes :
          workers' = [workers EXCEPT ![a].at = AfterAgentCall(outcome, "get"),
                                     ![a].started = (outcome = "returns")]
    /\ UNCHANGED <<stateVars, history, result_score, max_turns, action_record, pc, err, fn_in, fn_out,
                   level, isolator, channels, reply, successor, is_replay, ioVars>>

\* MESSAGE_TYPE_ACTION: action = _get_action(agent, state, user_inputs);
\* action_queue.put(action, False). The agent runs on the state object the
\* process unpickled, and what it writes stays in that object.
agent_handler_action(a) ==
    /\ a \in DOMAIN workers
    /\ workers[a].at = MESSAGE_TYPE_ACTION
    /\ \E outcome \in AgentReplies \cup {"hangs"}, cheats \in BOOLEAN :
          LET state == IF cheats
                       THEN [workers[a].state EXCEPT !.score = CHEAT_SCORE,
                                                     !.game_over = TRUE]
                       ELSE workers[a].state
          IN  IF outcome = "hangs"
              THEN /\ workers' = [workers EXCEPT ![a].at = "hung", ![a].state = state]
                   /\ UNCHANGED <<channels, reply>>
              ELSE /\ workers' = [workers EXCEPT ![a].at = "get", ![a].state = state]
                   /\ reply' = outcome
                   /\ channels' = [channels EXCEPT ![a].action =
                          Append(@, GuardedRecord(workers[a].state.agent_index, outcome))]
    /\ UNCHANGED <<stateVars, history, result_score, max_turns, action_record, pc, err, fn_in, fn_out,
                   level, isolator, successor, is_replay, ioVars>>

\* MESSAGE_TYPE_COMPLETE: agent.game_complete(final_state); break; then the
\* action queue is closed and the message queue emptied.
agent_handler_complete(a) ==
    /\ a \in DOMAIN workers
    /\ workers[a].at = MESSAGE_TYPE_COMPLETE
    /\ \E outcome \in AgentOutcomes :
          /\ workers' = [workers EXCEPT ![a].at = AfterAgentCall(outcome, "exited")]
          /\ channels' = IF outcome = "returns"
                         THEN [channels EXCEPT ![a].message = <<>>]
                         ELSE channels
    /\ UNCHANGED <<stateVars, history, result_score, max_turns, action_record, pc, err, fn_in, fn_out,
                   level, isolator, reply, successor, is_replay, ioVars>>

IsolatedAgents == DictKeys(PlainDelays)

agent_handler(a) ==
    \/ agent_handler_load(a)
    \/ agent_handler_get(a)
    \/ agent_handler_start(a)
    \/ agent_handler_action(a)
    \/ agent_handler_complete(a)

\* Game.run's own steps, the same under every isolator.
RunEngine ==
    \/ Run_state_game_start
    \/ Run_loop_test
    \/ Run_process_turn
    \/ Run_result_update
    \/ Run_check_end
    \/ Run_mark_timeout

IsolatorEngine ==
    \/ NoneIsolator_init_agents
    \/ NoneIsolator_game_start
    \/ Len(history) < MaxRequests /\ NoneIsolator_get_action
    \/ NoneIsolator_game_complete
    \/ NoneIsolator_close
    \/ ProcessIsolator_init_agents
    \/ ProcessIsolator_game_start
    \/ Len(history) < MaxRequests /\ ProcessIsolator_get_action_put
    \/ ProcessIsolator_get_action_get
    \/ ProcessIsolator_game_complete
    \/ ProcessIsolator_close_queues
    \/ ProcessIsolator_close_empty
    \/ \E a \in IsolatedAgents : join_process(a)
    \/ ProcessIsolator_close_clear

NextIsolated ==
    \/ RunEngine
    \/ IsolatorEngine
    \/ \E a \in IsolatedAgents : agent_handler(a)

SpecIsolated == InitIsolated /\ [][NextIsolated]_vars

\* The engine's thread and every agent process keep running while they can
\* take a step: the operating system schedules each of them.
SpecIsolatedLive ==
    /\ SpecIsolated
    /\ WF_vars(RunEngine \/ IsolatorEngine)
    /\ \A a \in IsolatedAgents : WF_vars(agent_handler(a))

-----------------------------------------------------------------------------
(* Setup: the roster of agent infos is built with AgentInfo's constructor
   (from_dict calls it too), AgentInfo.set, AgentInfo.update and the removal
   of agents, as _parse_agent_infos does, and handed to GameInfo; the state
   then takes each agent's move_delay from it. The roster is kept in
   move_delays, the dict GameState.__init__ copies it to. *)

DEFAULT_MOVE_DELAY == 100

\* Values a move delay is given as.
SetupDelays == {-1, 0, 1, 2}

\* The move_delay argument of the constructor: <<>> is None.
MoveDelayArguments == {<<>>} \cup {<<d>> : d \in SetupDelays}

\* del d[key]
DictDel(d, key) == SelectSeq(d, LAMBDA e : e.k # key)

InitSetup ==
    /\ NoEngine
    /\ pc = "setup"
    /\ \E b \in IsolatedBoards : FreshState(b, <<>>)

\* agent_infos[agent] = AgentInfo(move_delay = ...)
AgentInfo_init(agent, argument) ==
    /\ pc = "setup"
    /\ LET move_delay == IF argument = <<>> THEN DEFAULT_MOVE_DELAY ELSE argument[1]
       IN  IF move_delay <= 0
           THEN /\ err' = "ValueError: Agent move delay must be > 0."
                /\ pc' = "raised"
                /\ UNCHANGED move_delays
           ELSE /\ move_delays' = DictSet(move_delays, agent, move_delay)
                /\ UNCHANGED <<err, pc>>
    /\ UNCHANGED <<board, agent_index, game_over, last_actions, score, turn_count,
                   tickets, timeout, history, result_score, max_turns, action_record,
                   fn_in, fn_out, auxVars>>

\* agent_infos[agent].set('move_delay', value): self.move_delay = int(value)
AgentInfo_set(agent, value) ==
    /\ pc = "setup"
    /\ DictHas(move_delays, agent)
    /\ move_delays' = DictSet(move_delays, agent, value)
    /\ UNCHANGED <<board, agent_index, game_over, last_actions, score, turn_count,
                   tickets, timeout, history, result_score, max_turns, action_record,
                   pc, err, fn_in, fn_out, auxVars>>

\* agent_infos[agent].update(agent_infos[other])
AgentInfo_update(agent, other) ==
    /\ pc = "setup"
    /\ DictHas(move_delays, agent)
    /\ DictHas(move_delays, other)
    /\ agent # other
    /\ move_delays' = DictSet(move_delays, agent, DictGet(move_delays, other))
    /\ UNCHANGED <<board, agent_index, game_over, last_actions, score, turn_count,
                   tickets, timeout, history, result_score, max_turns, action_record,
                   pc, err, fn_in, fn_out, auxVars>>

\* del agent_info[remove_agent_index]
remove_agent(agent) ==
    /\ pc = "setup"
    /\ DictHas(move_delays, agent)
    /\ move_delays' = DictDel(move_delays, agent)
    /\ UNCHANGED <<board, agent_index, game_over, last_actions, score, turn_count,
                   tickets, timeout, history, result_score, max_turns, action_record,
                   pc, err, fn_in, fn_out, auxVars>>

\* GameInfo(board_source, agent_infos, ...), and the state made from it.
GameInfo_init ==
    /\ pc = "setup"
    /\ IF Len(move_delays) = 0
       THEN /\ err' = "ValueError: No agents provided."
            /\ pc' = "raised"
       ELSE /\ pc' = "fresh"
            /\ UNCHANGED err
    /\ UNCHANGED <<stateVars, history, result_score, max_turns, action_record,
                   fn_in, fn_out, auxVars>>

NextSetup ==
    \/ \E agent \in BoardAgents, argument \in MoveDelayArguments :
          AgentInfo_init(agent, argument)
    \/ \E agent \in BoardAgents, value \in SetupDelays : AgentInfo_set(agent, value)
    \/ \E agent, other \in BoardAgents : AgentInfo_update(agent, other)
    \/ \E agent \in BoardAgents : remove_agent(agent)
    \/ GameInfo_init
    \/ game_start
    \/ \E a \in Actions : Game_process_turn(a)

SpecSetup == InitSetup /\ [][NextSetup]_vars

-----------------------------------------------------------------------------
(* Game.run's random generator: random.Random(seed), the draw of the game id
   and the seeds isolator.game_start suggests to the agents. The generator is
   a full period congruential stream over 0 .. RngModulus - 1: a state and a
   rule for the next one, each draw returning the new state. *)

Random(seed) == [seed |-> seed, state |-> seed % RngModulus]

randint(r) == [r EXCEPT !.state = (5 * @ + 3) % RngModulus]

\* The loop of game_start: one draw from the shared generator per agent, in
\* the order of the dict, the value drawn being that agent's suggested seed.
RECURSIVE SuggestSeeds(_, _, _)
SuggestSeeds(r, agents, seeds) ==
    IF agents = <<>> THEN [rng |-> r, seeds |-> seeds]
    ELSE LET drawn == randint(r)
         IN  SuggestSeeds(drawn, Tail(agents),
                          Append(seeds, Entry(Head(agents), drawn.state)))

\* agent_infos of zero to MaxAgents agents.
SeedAgentInfos ==
    {[i \in 1..n |-> Entry(i - 1, 1)] : n \in 0..MaxAgents}

InitSeed ==
    /\ pc = "rng"
    /\ \E md \in SeedAgentInfos : FreshState(EmptyBoard, md)
    /\ level \in {"none", "process"}
    /\ isolator = EmptyIsolator
    /\ workers = <<>>
    /\ channels = <<>>
    /\ reply = None
    /\ successor = NoSuccessor
    /\ history = <<>>
    /\ result_score = 0
    /\ is_replay = FALSE
    /\ \E seed \in 0..MaxSeed : rng = [seed |-> seed, state |-> 0]
    /\ NoReplay
    /\ agent_user_inputs = <<>>
    /\ ui_log = [seen |-> <<>>, handed |-> <<>>]
    /\ max_turns = -1
    /\ action_record = AgentActionRecord(NoAgent, None, FALSE)
    /\ err = "none"
    /\ fn_in = [fn |-> "none"]
    /\ fn_out = None

\* rng = random.Random(self._game_info.seed)
Seed_Random ==
    /\ pc = "rng"
    /\ rng' = Random(rng.seed)
    /\ pc' = "game_id"
    /\ UNCHANGED <<stateVars, history, result_score, max_turns, action_record, err, fn_in, fn_out,
                   level, isolator, workers, channels, reply, successor, is_replay,
                   agent_user_inputs, ui_log, replay_info, scripted_actions>>

\* game_id = rng.randint(0, 2**64); get_initial_state draws nothing.
Seed_game_id ==
    /\ pc = "game_id"
    /\ rng' = randint(rng)
    /\ fn_out' = randint(rng).state
    /\ pc' = "isolator.game_start"
    /\ UNCHANGED <<stateVars, history, result_score, max_turns, action_record, err, fn_in,
                   level, isolator, workers, channels, reply, successor, is_replay,
                   agent_user_inputs, ui_log, replay_info, scripted_actions>>

\* isolator.game_start(rng, state) of NoneIsolator and of ProcessIsolator:
\* the same loop, the seed going to agent.game_start or into the start
\* message.
Seed_isolator_game_start ==
    /\ pc = "isolator.game_start"
    /\ LET suggested == SuggestSeeds(rng, DictKeySeq(move_delays), <<>>)
       IN  /\ rng' = suggested.rng
           /\ channels' = suggested.seeds
    /\ pc' = "loop"
    /\ UNCHANGED <<stateVars, history, result_score, max_turns, action_record, err, fn_in, fn_out,
                   level, isolator, workers, reply, successor, is_replay,
                   agent_user_inputs, ui_log, replay_info, scripted_actions>>

NextSeed == Seed_Random \/ Seed_game_id \/ Seed_isolator_game_start

SpecSeed == InitSeed /\ [][NextSeed]_vars

-----------------------------------------------------------------------------
(* Game.run's user inputs: agent_user_inputs and Game._get_user_inputs, with
   the scheduler of the game state between the calls. ui_log is the record
   kept beside the program: what ui.get_user_inputs() returned so far, and
   what each agent was handed so far. *)

UserInputActions == {NORTH, SOUTH}

\* What one call of ui.get_user_inputs() may return.
NewUserInputs ==
    UNION {[1..n -> UserInputActions] : n \in 0..MaxNewInputs}

\* agent_user_inputs[agent_index] = [] for every agent of agent_infos.
EmptyUserInputs(md) == [i \in DOMAIN md |-> Entry(md[i].k, <<>>)]

InitInputs ==
    /\ pc = "fresh"
    /\ \E md \in MoveDelayDicts :
          /\ FreshState(EmptyBoard, md)
          /\ agent_user_inputs = EmptyUserInputs(md)
          /\ ui_log = [seen |-> <<>>, handed |-> EmptyUserInputs(md)]
    /\ NoIsolator
    /\ successor = NoSuccessor
    /\ history = <<>>
    /\ result_score = 0
    /\ is_replay = FALSE
    /\ rng = [seed |-> 0, state |-> 0]
    /\ NoReplay
    /\ max_turns = -1
    /\ action_record = AgentActionRecord(NoAgent, None, FALSE)
    /\ err = "none"
    /\ fn_in = [fn |-> "none"]
    /\ fn_out = None

\* for user_inputs in agent_user_inputs.values(): user_inputs += new
ExtendUserInputs(buffers, new_user_inputs) ==
    [i \in DOMAIN buffers |-> Entry(buffers[i].k, buffers[i].v \o new_user_inputs)]

\* A mutant: the buffer of the active agent is handed over but not replaced.
get_user_inputs_NoClear(new_user_inputs) ==
    LET extended == ExtendUserInputs(agent_user_inputs, new_user_inputs)
        seen == ui_log.seen \o new_user_inputs
    IN  /\ pc = "started"
        /\ err = "none"
        /\ Len(seen) <= MaxInputs
        /\ IF DictHas(agent_user_inputs, agent_index)
           THEN /\ agent_user_inputs' = extended
                /\ ui_log' = [seen |-> seen,
                              handed |-> DictSet(ui_log.handed, agent_index,
                                                 DictGet(ui_log.handed, agent_index)
                                                    \o DictGet(extended, agent_index))]
                /\ err' = err
           ELSE /\ agent_user_inputs' = extended
                /\ ui_log' = [ui_log EXCEPT !.seen = seen]
                /\ err' = "KeyError"
        /\ UNCHANGED <<stateVars, history, result_score, max_turns, action_record, pc, fn_in, fn_out,
                       level, isolator, workers, channels, reply, successor, is_replay, rng, replay_info, scripted_actions>>

\* Game._get_user_inputs(state.agent_index, agent_user_inputs, ui): the new
\* inputs go to every buffer, the active agent's buffer is returned and
\* replaced by an empty one. Without a buffer for agent_index the lookup
\* raises after the buffers were extended.
get_user_inputs(new_user_inputs) ==
    LET extended == ExtendUserInputs(agent_user_inputs, new_user_inputs)
        seen == ui_log.seen \o new_user_inputs
    IN  /\ pc = "started"
        /\ err = "none"
        /\ Len(seen) <= MaxInputs
        /\ IF DictHas(agent_user_inputs, agent_index)
           THEN /\ agent_user_inputs' = DictSet(extended, agent_index, <<>>)
                /\ ui_log' = [seen |-> seen,
                              handed |-> DictSet(ui_log.handed, agent_index,
                                                 DictGet(ui_log.handed, agent_index)
                                                    \o DictGet(extended, agent_index))]
                /\ err' = err
           ELSE /\ agent_user_inputs' = extended
                /\ ui_log' = [ui_log EXCEPT !.seen = seen]
                /\ err' = "KeyError"
        /\ UNCHANGED <<stateVars, history, result_score, max_turns, action_record, pc, fn_in, fn_out,
                       level, isolator, workers, channels, reply, successor, is_replay, rng, replay_info, scripted_actions>>

NextInputs ==
    \/ game_start
    \/ \E new_user_inputs \in NewUserInputs : get_user_inputs(new_user_inputs)
    \/ finish_turn(STOP)

SpecInputs == InitInputs /\ [][NextInputs]_vars

-----------------------------------------------------------------------------
(* The scheduler on its own: game_start and finish_turn on rosters of one to
   MaxAgents agents with every mix of delays, zero included (GameState does
   not check the delays it is given). *)

ScheduleDelays == {0, 1, 2, 3}

ScheduleDelayDicts ==
    UNION {{[i \in 1..n |-> Entry(i - 1, d[i])] : d \in [1..n -> ScheduleDelays]}
              : n \in 1..MaxAgents}

InitSchedule ==
    /\ NoEngine
    /\ pc = "fresh"
    /\ \E md \in ScheduleDelayDicts : FreshState(EmptyBoard, md)

NextSchedule ==
    \/ game_start
    \/ finish_turn(STOP)

SpecSchedule == InitSchedule /\ [][NextSchedule]_vars

\* The caller goes on: game_start is called, and a turn that can be finished
\* is finished.
SpecScheduleLive ==
    /\ SpecSchedule
    /\ WF_vars(game_start)
    /\ WF_vars(finish_turn(STOP))

-----------------------------------------------------------------------------
(* A replay: Game.run on a game whose result is saved, then the game that
   _override_args_with_replay and the setup build from the saved result,
   run with _is_replay set. *)

ReplayDelays == {PlainDelays, <<Entry(0, 200), Entry(1, 100)>>}

InitReplay ==
    /\ pc = "isolator.init_agents"
    /\ NoIsolator
    /\ successor = NoSuccessor
    /\ history = <<>>
    /\ result_score = 0
    /\ is_replay = FALSE
    /\ rng = [seed |-> 0, state |-> 0]
    /\ agent_user_inputs = <<>>
    /\ ui_log = [seen |-> <<>>, handed |-> <<>>]
    /\ scripted_actions = <<>>
    /\ max_turns \in {-1, 0}
    /\ action_record = AgentActionRecord(NoAgent, None, FALSE)
    /\ err = "none"
    /\ fn_in = [fn |-> "none"]
    /\ fn_out = None
    /\ \E b \in IsolatedBoards, md \in ReplayDelays :
          /\ FreshState(b, md)
          /\ replay_info = [board_source |-> b, agent_infos |-> md, history |-> <<>>]

\* The loop over replay_info.history: each agent's actions in order, the
\* agents in the order of their first record.
RECURSIVE ScriptActions(_, _)
ScriptActions(items, scripted) ==
    IF items = <<>> THEN scripted
    ELSE LET item == Head(items)
             sofar == IF DictHas(scripted, item.agent_index)
                      THEN DictGet(scripted, item.agent_index)
                      ELSE <<>>
         IN  ScriptActions(Tail(items),
                           DictSet(scripted, item.agent_index,
                                   Append(sofar, get_action(item))))

\* sorted(agent_indexes)
RECURSIVE SortedIndexes(_)
SortedIndexes(indexes) ==
    IF indexes = {} THEN <<>>
    ELSE LET least == CHOOSE a \in indexes : \A b \in indexes : a <= b
         IN  <<least>> \o SortedIndexes(indexes \ {least})

\* _parse_agent_infos on the base agent infos of a replay: a default agent
\* info for every agent of the board, updated from the scripted agent's info
\* where the replay has one.
ReplayAgentInfos(board_source, scripted, agent_infos) ==
    LET indexes == SortedIndexes({a \in DOMAIN board_source.agents :
                                     board_source.agents[a] # NoPosition})
    IN  [i \in DOMAIN indexes |->
           IF DictHas(scripted, indexes[i])
           THEN Entry(indexes[i], DictGet(agent_infos, indexes[i]))
           ELSE Entry(indexes[i], DEFAULT_MOVE_DELAY)]

\* The result of a finished game is saved, loaded as replay_info, and the
\* replay is set up: board and seed from the result, max_turns the length of
\* the history, a ScriptedAgent for each agent of the history.
override_args_with_replay ==
    /\ pc = "done"
    /\ ~is_replay
    /\ err = "none"
    /\ replay_info' = [replay_info EXCEPT !.history = history]
    /\ scripted_actions' = ScriptActions(history, <<>>)
    /\ max_turns' = Len(history)
    /\ is_replay' = TRUE
    /\ board' = replay_info.board_source
    /\ move_delays' = ReplayAgentInfos(replay_info.board_source, scripted_actions',
                                       replay_info.agent_infos)
    /\ tickets' = <<>>
    /\ agent_index' = NoAgent
    /\ game_over' = FALSE
    /\ last_actions' = <<>>
    /\ score' = 0
    /\ turn_count' = 0
    /\ timeout' = FALSE
    /\ history' = <<>>
    /\ result_score' = 0
    /\ action_record' = AgentActionRecord(NoAgent, None, FALSE)
    /\ pc' = "isolator.init_agents"
    /\ UNCHANGED <<err, fn_in, fn_out, level, isolator, workers, channels, reply,
                   successor, rng, agent_user_inputs, ui_log>>

\* What the agents of a replay answer: a ScriptedAgent its next scripted
\* action, or STOP when none is left; the default RandomAgent any legal
\* action.
ReplayReplies ==
    IF DictHas(scripted_actions, agent_index)
    THEN IF DictGet(scripted_actions, agent_index) # <<>>
         THEN {Head(DictGet(scripted_actions, agent_index))}
         ELSE {STOP}
    ELSE SeqRange(get_legal_actions)

\* isolator.get_action(state, user_inputs) with the agents of a replay.
Replay_isolator_get_action ==
    /\ pc = "get_action"
    /\ is_replay
    /\ IF agent_index = NoAgent
       THEN /\ err' = "ValueError: no active agent"
            /\ pc' = "raised"
            /\ UNCHANGED <<action_record, reply, scripted_actions>>
       ELSE /\ reply' \in ReplayReplies
            /\ action_record' = GuardedRecord(agent_index, reply')
            /\ scripted_actions' =
                  IF DictHas(scripted_actions, agent_index)
                     /\ DictGet(scripted_actions, agent_index) # <<>>
                  THEN DictSet(scripted_actions, agent_index,
                               Tail(DictGet(scripted_actions, agent_index)))
                  ELSE scripted_actions
            /\ pc' = "process_turn"
            /\ UNCHANGED err
    /\ UNCHANGED <<stateVars, history, result_score, max_turns, fn_in, fn_out, level, isolator,
                   workers, channels, successor, is_replay, rng, agent_user_inputs,
                   ui_log, replay_info>>

\* The agents of the game that is saved answer as any agent does.
Original_isolator_get_action ==
    /\ ~is_replay
    /\ Run_isolator_get_action

NextReplay ==
    \/ Run_isolator_init_agents
    \/ Run_state_game_start
    \/ Run_isolator_game_start
    \/ Run_loop_test
    \/ Original_isolator_get_action
    \/ Replay_isolator_get_action
    \/ Run_process_turn
    \/ Run_result_update
    \/ Run_check_end
    \/ Run_mark_timeout
    \/ Run_isolator_game_complete
    \/ Run_isolator_close
    \/ override_args_with_replay

SpecReplay == InitReplay /\ [][NextReplay]_vars

-----------------------------------------------------------------------------
(* Claims on Ticket and the selection. *)

\* The lexicographic order on (next_time, last_time, num_moves), written out.
LexBefore(a, b) ==
    \/ a.next_time < b.next_time
    \/ a.next_time = b.next_time /\ a.last_time < b.last_time
    \/ a.next_time = b.next_time /\ a.last_time = b.last_time
          /\ a.num_moves < b.num_moves

\* The place of an agent's entry in a dict.
EntryIndex(d, key) == CHOOSE i \in DOMAIN d : d[i].k = key

\* C1: on a non-empty ticket map get_next_agent_index returns an agent of the
\* map whose ticket no other ticket is before, and among the agents that hold
\* that smallest ticket the one that comes first in the map's iteration order.
C1_SelectsFirstSmallest ==
    (pc = "ret" /\ fn_in.fn = "get_next_agent_index") =>
        LET tk == fn_in.tk
        IN  /\ fn_out \in DictKeys(tk)
            /\ \A i \in DOMAIN tk : ~LexBefore(tk[i].v, DictGet(tk, fn_out))
            /\ \A i \in DOMAIN tk :
                  tk[i].v = DictGet(tk, fn_out) => EntryIndex(tk, fn_out) <= i

\* C1 witness: three agents, the smallest ticket held by the second and the
\* third entry, and the second one returned.
C1_Witness ==
    /\ pc = "ret"
    /\ fn_in.fn = "get_next_agent_index"
    /\ Len(fn_in.tk) = 3
    /\ fn_in.tk[2].v = fn_in.tk[3].v
    /\ LexBefore(fn_in.tk[2].v, fn_in.tk[1].v)
    /\ fn_out = fn_in.tk[2].k

\* C2: a < b on tickets is the ascending lexicographic order on (next_time,
\* last_time, num_moves), and of two tickets exactly one is smaller unless
\* all three fields are equal, when neither is.
C2_TicketOrderLexicographic ==
    (pc = "ret" /\ fn_in.fn = "lt") =>
        /\ fn_out.ab = LexBefore(fn_in.a, fn_in.b)
        /\ fn_out.ba = LexBefore(fn_in.b, fn_in.a)
        /\ (fn_in.a # fn_in.b) => (fn_out.ab # fn_out.ba)
        /\ (fn_in.a = fn_in.b) => (~fn_out.ab /\ ~fn_out.ba)

\* C2 witness: a smaller next_time decides against larger other fields.
C2_Witness ==
    /\ pc = "ret"
    /\ fn_in.fn = "lt"
    /\ fn_in.a.next_time < fn_in.b.next_time
    /\ fn_in.a.last_time > fn_in.b.last_time
    /\ fn_in.a.num_moves > fn_in.b.num_moves
    /\ fn_out.ab

\* C3: Ticket.next(delay) returns the ticket (next_time + delay, next_time,
\* num_moves + 1) and leaves the ticket it was called on as it was.
C3_TicketNext ==
    [][(pc = "call" /\ pc' = "ret" /\ fn_in.fn = "next") =>
          /\ fn_in' = fn_in
          /\ fn_out' = [next_time |-> fn_in.t.next_time + fn_in.move_delay,
                        last_time |-> fn_in.t.next_time,
                        num_moves |-> fn_in.t.num_moves + 1]]_vars

\* C3 witness: next was called on a ticket whose two times differ.
C3_Witness ==
    /\ pc = "ret"
    /\ fn_in.fn = "next"
    /\ fn_in.t.next_time # fn_in.t.last_time
    /\ fn_in.move_delay > 1
    /\ fn_out.last_time = fn_in.t.next_time

-----------------------------------------------------------------------------
(* Claims on the GameState operations. *)

\* The state was constructed with the tickets (100,0,0) for agent 0 and
\* (200,0,0) for agent 1, move delays 100 and 200, and game_start has not
\* replaced them.
C4_Scenario ==
    /\ pc = "restored"
    /\ DictKeys(move_delays) = {0, 1}
    /\ DictGet(move_delays, 0) = 100
    /\ DictGet(move_delays, 1) = 200

\* C4 as stated: the first three selections are agent 0, agent 0, agent 1.
C4_Original ==
    (C4_Scenario /\ agent_index # NoAgent) =>
        /\ turn_count = 0 => agent_index = 0
        /\ turn_count = 1 => agent_index = 0
        /\ turn_count = 2 => agent_index = 1

\* C4 amended: from the tickets (100,0,0) and (200,0,0) with move delays 100
\* and 200, the first three selections, each followed by the advance of the
\* selected agent's ticket, are agent 0, agent 1, agent 0.
C4_SelectionOrder ==
    (C4_Scenario /\ agent_index # NoAgent) =>
        /\ turn_count = 0 => agent_index = 0
        /\ turn_count = 1 => agent_index = 1
        /\ turn_count = 2 => agent_index = 0

\* C4 witness: the third selection, after agent 0 and agent 1 moved once each.
C4_Witness ==
    /\ C4_Scenario
    /\ turn_count = 2
    /\ agent_index = 0
    /\ DictGet(tickets, 0) = Ticket(200, 100, 1)
    /\ DictGet(tickets, 1) = Ticket(400, 200, 1)

Max(a, b) == IF a >= b THEN a ELSE b

Abs(a) == IF a >= 0 THEN a ELSE 0 - a

TwoAgentGame ==
    /\ DictKeys(move_delays) = {0, 1}
    /\ DictKeys(tickets) = {0, 1}

\* C5: with two agents, after any number of turns the products of move count
\* and move delay of the two agents differ by at most the larger delay plus
\* one, a constant that does not depend on the number of turns.
C5_Fairness ==
    TwoAgentGame =>
        Abs((DictGet(tickets, 0).num_moves * DictGet(move_delays, 0))
            - (DictGet(tickets, 1).num_moves * DictGet(move_delays, 1)))
          <= Max(DictGet(move_delays, 0), DictGet(move_delays, 1)) + 1

\* C5 witness: delays 50 and 100, six turns, agent 0 moved twice as often.
C5_Witness ==
    /\ TwoAgentGame
    /\ pc = "started"
    /\ DictGet(move_delays, 0) = 50
    /\ DictGet(move_delays, 1) = 100
    /\ turn_count = 6
    /\ DictGet(tickets, 0).num_moves = 4
    /\ DictGet(tickets, 1).num_moves = 2

\* C6: once game_start has run, every agent of move_delays has exactly one
\* entry in tickets.
C6_EveryAgentHoldsOneTicket ==
    pc = "started" =>
        \A a \in DictKeys(move_delays) : DictCount(tickets, a) = 1

\* C6 witness: an agent that is off the board has taken turns.
C6_Witness ==
    /\ pc = "started"
    /\ turn_count >= 3
    /\ \E a \in DictKeys(move_delays) :
          /\ get_agent_position(board, a) = NoPosition
          /\ DictGet(tickets, a).num_moves >= 2

\* A step that completes the active agent's turn: its ticket is advanced.
TurnCompleted ==
    /\ agent_index # NoAgent
    /\ pc \in {"started", "restored"}
    /\ pc' = pc
    /\ DictHas(tickets, agent_index)
    /\ DictGet(tickets', agent_index)
         = TicketNext(DictGet(tickets, agent_index), DictGet(move_delays, agent_index))

\* C7: turn_count never decreases, a step that completes a turn adds exactly
\* one to it, and no other step changes it.
C7_TurnCountByOne ==
    [][/\ turn_count' >= turn_count
       /\ TurnCompleted => turn_count' = turn_count + 1
       /\ ~TurnCompleted => turn_count' = turn_count]_vars

\* C7 witness: three turns completed, by both agents.
C7_Witness ==
    /\ turn_count = 3
    /\ TwoAgentGame
    /\ DictGet(tickets, 0).num_moves >= 1
    /\ DictGet(tickets, 1).num_moves >= 1

\* C8 as stated: on a state on which game_start() has run, each call of
\* process_turn with a legal action adds one to turn_count, so that after N
\* calls it is N.
C8_Original ==
    [][(/\ pc = "started"
        /\ \E a \in Actions : Game_process_turn(a)
        /\ err' = "none") => turn_count' = turn_count + 1]_vars

\* The turn that ended the game has been applied by Game.run.
GameEndedByTurn ==
    /\ game_over
    /\ ~timeout
    /\ pc \in {"result.update", "check_end", "exit", "isolator.game_complete",
               "isolator.close", "done"}

\* C9 as stated: after the turn that set game_over the loop requests no
\* action and applies no turn, no agent is left selected as active, and
\* turn_count, tickets and board do not change again.
C9_Original ==
    [][GameEndedByTurn =>
          /\ agent_index = NoAgent
          /\ pc' \notin {"get_action", "process_turn"}
          /\ UNCHANGED <<turn_count, tickets, board>>]_vars

\* C10: Game.process_turn with an action outside get_legal_actions() raises
\* the illegal action error and leaves the whole state, turn_count and board
\* included, as it was.
C10_IllegalActionRejected ==
    [][\A a \in Actions :
          (Game_process_turn(a) /\ agent_index # NoAgent
              /\ a \notin SeqRange(get_legal_actions)) =>
             /\ err' = "ValueError: illegal action"
             /\ UNCHANGED stateVars]_vars

\* C10 witness: SOUTH was rejected where the legal actions are STOP and NORTH.
C10_Witness ==
    /\ err = "ValueError: illegal action"
    /\ get_action(action_record) = SOUTH
    /\ get_legal_actions = <<STOP, NORTH>>

-----------------------------------------------------------------------------
(* Claims on Game.run: faults. *)

\* C11: when the record the isolator returned holds an action outside the
\* active agent's legal set, Game.run raises the illegal action error, the
\* state and the history are left as they were, and no step of the run
\* follows a raise.
C11_IllegalActionFatal ==
    [][/\ pc # "raised"
       /\ (/\ pc = "process_turn"
           /\ get_action(action_record) \notin SeqRange(get_legal_actions)) =>
             /\ pc' = "raised"
             /\ err' = "ValueError: illegal action"
             /\ UNCHANGED <<stateVars, history>>]_vars

\* C11 witness: a turn was recorded, then an agent's own illegal action
\* ended the run.
C11_Witness ==
    /\ pc = "raised"
    /\ err = "ValueError: illegal action"
    /\ ~action_record.crashed
    /\ Len(history) >= 1
    /\ history[Len(history)] # action_record

\* C12 as stated: the record of a crashed agent never ends the run with an
\* error, whatever the agent's legal actions are.
C12_Original ==
    [][(pc = "process_turn" /\ action_record.crashed) => pc' # "raised"]_vars

\* C13: for a state with an active agent the guarded call returns to the
\* engine with a record of the active agent: crashed with STOP when the
\* agent raised, not crashed with the agent's action when it returned.
C13_GuardedGetAction ==
    [][(pc = "get_action" /\ agent_index # NoAgent) =>
          /\ pc' = "process_turn"
          /\ err' = "none"
          /\ action_record'.agent_index = agent_index
          /\ (reply' = Raises) =>
                (action_record'.crashed /\ action_record'.agent_action = STOP)
          /\ (reply' # Raises) =>
                (~action_record'.crashed /\ action_record'.agent_action = reply')]_vars

\* C13 witness: a ghost raised, and the engine holds its crashed record.
C13_Witness ==
    /\ pc = "process_turn"
    /\ agent_index = 1
    /\ reply = Raises
    /\ action_record = AgentActionRecord(1, STOP, TRUE)

\* C15 as stated: however Game.run ends, by return or by an exception, the
\* isolator has been closed and holds no agent.
C15_Original ==
    (pc \in {"raised", "done"}) => isolator.agents = {}

-----------------------------------------------------------------------------
(* Claims on the isolators. *)

\* C14: get_action of the subprocess backend always returns: once the engine
\* waits for the record of the agent process, it gets past the wait, whatever
\* the agent process does (it answers, or the wait is given up and a crashed
\* record returned).
C14_Original ==
    (level = "process" /\ pc = "action_queue.get") ~> (pc # "action_queue.get")

\* C16: ProcessIsolator.close() always returns and does not fail: a close()
\* under way goes on to its next stage or returns, in whatever position the
\* agent processes are.
C16_Original ==
    [][(level = "process" /\ pc \in {"close.empty", "close.join"})
          => pc' \in {"close.empty", "close.join", "done"}]_vars

\* C17: a second close() on the same isolator raises no error.
C17_Original ==
    [][(isolator.close_calls = MaxCloseCalls /\ pc \in {"close.empty", "close.join"})
          => pc' # "raised"]_vars

\* C19: under an isolating backend (process or tcp) nothing the agent does
\* with the state it is handed during get_action changes the engine's score,
\* game_over or board.
C19_Original ==
    [][(level \in {"process", "tcp"} /\ pc \in {"get_action", "action_queue.get"})
          => UNCHANGED <<score, game_over, board>>]_vars

-----------------------------------------------------------------------------
(* Claims on successors and legal actions. *)

\* C18: generate_sucessor leaves the state it is called on as it was, and a
\* later write to the successor's board leaves the state's board as it was;
\* the successor is the state's copy with the action's turn applied.
C18_SuccessorIndependent ==
    [][/\ (\E a \in Actions : generate_sucessor(a)) =>
             /\ UNCHANGED stateVars
             /\ successor'.shared = {}
             /\ \A f \in StateFields \ {"board", "score", "game_over"} :
                   successor'.value[f] = StateValue[f]
       /\ mutate_successor_board => UNCHANGED stateVars]_vars

\* C18 witness: the successor's board lost a marker after the action moved
\* the agent in it, and the state's board still holds both.
C18_Witness ==
    /\ successor # NoSuccessor
    /\ successor.mutations = 1
    /\ err = "none"
    /\ successor.value.board.agents # board.agents
    /\ successor.value.board.pellets # board.pellets
    /\ board.pellets # {}

\* C20 as stated: with an active agent the legal actions are never empty, in
\* the base state, the Pac-Man and Capture states and the GridWorld state.
C20_Original ==
    (agent_index # NoAgent) =>
        /\ Len(get_legal_actions) >= 1
        /\ Len(core_get_legal_actions) >= 1
        /\ \A terminal_positions \in SUBSET CorridorCells :
              Len(gridworld_get_legal_actions(terminal_positions)) >= 1

-----------------------------------------------------------------------------
(* Claims on Game.run: crash, budget, history and order. *)

\* C21: a turn whose record says the agent crashed is surfaced to the state
\* by process_agent_crash, whose default marks the game over: once the turn
\* of a crashed record is processed, the game is over.
C21_Original ==
    (pc = "result.update" /\ action_record.crashed) => game_over

\* C22: at the loop's exit the state is marked game over before
\* isolator.game_complete is called, and it is marked timed out exactly when
\* the game was not over at the exit and the run is not a replay; no other
\* step of the run touches the timeout mark.
C22_TimeoutMarking ==
    [][/\ (pc = "exit") => /\ pc' = "isolator.game_complete"
                           /\ game_over'
                           /\ timeout' = (~game_over /\ ~is_replay)
       /\ (pc # "exit") => timeout' = timeout]_vars

C22_Witness ==
    /\ pc = "isolator.game_complete"
    /\ max_turns = 0
    /\ ~is_replay
    /\ game_over
    /\ timeout
    /\ history = <<>>


\* C23: with a turn budget max_turns = M >= 0 the loop processes at most M
\* turns, so the history never holds more than M records.
C23_Original ==
    (max_turns >= 0) => Len(history) <= max_turns


\* C24: a turn is processed only for a roster that holds at least one agent
\* and in which every move delay is positive.
C24_Original ==
    (action_record.agent_index # NoAgent)
        => /\ Len(move_delays) > 0
           /\ \A i \in DOMAIN move_delays : move_delays[i].v > 0


\* C25: the history is append-only and in turn order: the step after a
\* processed turn appends the turn's record, whose agent_index is the agent
\* the tickets selected, and sets the result's score to the state's score;
\* no other step changes the history or the result's score, and no step
\* changes or removes an earlier record.
C25_HistoryAppendOnly ==
    [][/\ (pc = "result.update")
            => /\ history' = Append(history, action_record)
               /\ history'[Len(history')].agent_index = get_next_agent_index(tickets)
               /\ result_score' = score'
       /\ (pc # "result.update") => UNCHANGED <<history, result_score>>
       /\ Len(history') >= Len(history)
       /\ \A i \in DOMAIN history : history'[i] = history[i]]_vars

C25_Witness ==
    /\ pc = "check_end"
    /\ Len(history) = 2
    /\ history[1].agent_action # history[2].agent_action
    /\ result_score = score
    /\ score # 0


-----------------------------------------------------------------------------
(* Claims on the protocol of the subprocess backend. *)

\* C26: ProcessIsolator.close() goes through its stages in order: after the
\* command channels are closed the drain leads to the join stage; in the join
\* stage a worker is terminated or killed only if it had not ended; and
\* close() returns only after every worker was joined, holding no channel
\* and no process.
C26_Original ==
    [][/\ (level = "process" /\ pc = "close.empty" /\ pc' # pc)
            => (pc' = "close.join" /\ isolator'.closed = isolator.message_queues)
       /\ (level = "process" /\ pc = "close.join")
            => /\ \A a \in DOMAIN workers :
                    workers[a].at \in Finished => workers'[a] = workers[a]
               /\ (pc' = "done")
                    => /\ isolator.joined = isolator.processes
                       /\ isolator'.processes = {}
                       /\ isolator'.message_queues = {}
                       /\ isolator'.action_queues = {}]_vars


\* The messages of one type in flight to an agent process.
InFlight(a, type) ==
    {i \in DOMAIN channels[a].message : channels[a].message[i].type = type}

\* The action requests to an agent process that are not yet read by the
\* engine as answers: in flight, being handled, or answered.
Outstanding(a) ==
    Cardinality(InFlight(a, MESSAGE_TYPE_ACTION))
        + (IF workers[a].at = MESSAGE_TYPE_ACTION THEN 1 ELSE 0)
        + Len(channels[a].action)

\* C27: each agent process handles its messages in the order they were sent
\* (start, then action requests, then complete), at most one action request
\* to an agent is outstanding, and only while the engine waits for that
\* agent; the request under way carries the engine's present state, and the
\* record get_action returns is for the active agent.
C27_RequestResponse ==
    /\ \A a \in DOMAIN workers :
          /\ Outstanding(a) <= 1
          /\ (Outstanding(a) = 1) => (pc = "action_queue.get" /\ a = agent_index)
          /\ (workers[a].at = MESSAGE_TYPE_ACTION)
                => /\ InFlight(a, MESSAGE_TYPE_START) = {}
                   /\ workers[a].state = PickledState
          /\ (workers[a].at = MESSAGE_TYPE_COMPLETE)
                => /\ InFlight(a, MESSAGE_TYPE_START) = {}
                   /\ InFlight(a, MESSAGE_TYPE_ACTION) = {}
          /\ \A i \in DOMAIN channels[a].action :
                channels[a].action[i].agent_index = agent_index
    /\ (level = "process" /\ pc = "process_turn")
          => action_record.agent_index = agent_index

C27_Witness ==
    /\ level = "process"
    /\ pc = "process_turn"
    /\ Len(history) = 1
    /\ action_record.agent_index = agent_index
    /\ action_record.agent_action # history[1].agent_action
    /\ workers[agent_index].at = "get"


\* C28: game_start posts the start message on every agent's queue in one
\* call, whatever the agent processes are doing, before the loop's first
\* get_action; in each queue a start message is ahead of every action
\* request, and an agent process that handles an action request has had its
\* game_start called.
C28_StartBeforeAction ==
    [][/\ (level = "process" /\ pc = "isolator.game_start" /\ pc' # pc)
            => /\ pc' = "loop"
               /\ workers' = workers
               /\ \A a \in isolator.processes :
                     channels'[a].message =
                         Append(channels[a].message, Message(MESSAGE_TYPE_START))
       /\ (pc \in {"isolator.init_agents", "state.game_start", "isolator.game_start"})
            => \A a \in DOMAIN workers : Outstanding(a) = 0
       /\ \A a \in DOMAIN workers :
            /\ \A i \in InFlight(a, MESSAGE_TYPE_START),
                  j \in InFlight(a, MESSAGE_TYPE_ACTION) : i < j
            /\ (workers[a].at = MESSAGE_TYPE_ACTION) => workers[a].started]_vars

C28_Witness ==
    /\ level = "process"
    /\ pc = "action_queue.get"
    /\ history = <<>>
    /\ workers[agent_index].at = MESSAGE_TYPE_ACTION
    /\ workers[agent_index].started
    /\ \E a \in DOMAIN workers : /\ workers[a].at = "load"
                                 /\ InFlight(a, MESSAGE_TYPE_START) # {}


\* The operations that may follow an operation of Game.run.
RunOrder(operation) ==
    CASE operation = "isolator.init_agents" -> {"state.game_start"}
      [] operation = "state.game_start" -> {"isolator.game_start"}
      [] operation = "isolator.game_start" -> {"loop"}
      [] operation = "loop" -> {"get_action", "exit"}
      [] operation = "get_action" -> {"process_turn", "raised"}
      [] operation = "process_turn" -> {"result.update", "raised"}
      [] operation = "result.update" -> {"check_end"}
      [] operation = "check_end" -> {"loop", "exit"}
      [] operation = "exit" -> {"isolator.game_complete"}
      [] operation = "isolator.game_complete" -> {"isolator.close"}
      [] operation = "isolator.close" -> {"done"}
      [] OTHER -> {}

-----------------------------------------------------------------------------
(* Claims on the bookkeeping of a turn. *)

\* C30: finish_turn (the step that counts a turn) stores the action as the
\* mover's last action, replaces the mover's ticket by its next ticket for
\* the mover's move delay, and leaves every other agent's ticket and last
\* action and all move delays as they were; once game_start has run no other
\* step changes the tickets.
C30_FinishTurnFrame ==
    [][/\ (turn_count' # turn_count)
            => /\ agent_index # NoAgent
               /\ DictGet(last_actions', agent_index) = get_action(action_record)
               /\ DictKeys(last_actions') = DictKeys(last_actions) \cup {agent_index}
               /\ \A a \in DictKeys(last_actions) \ {agent_index} :
                     DictGet(last_actions', a) = DictGet(last_actions, a)
               /\ DictGet(tickets', agent_index)
                     = TicketNext(DictGet(tickets, agent_index),
                                  DictGet(move_delays, agent_index))
               /\ DictKeys(tickets') = DictKeys(tickets)
               /\ \A a \in DictKeys(tickets) \ {agent_index} :
                     DictGet(tickets', a) = DictGet(tickets, a)
               /\ move_delays' = move_delays
       /\ (turn_count' = turn_count /\ pc = "started") => tickets' = tickets]_vars

C30_Witness ==
    /\ pc = "started"
    /\ turn_count = 3
    /\ DictKeys(last_actions) = {0, 1}
    /\ DictGet(last_actions, 0) # DictGet(last_actions, 1)
    /\ DictGet(tickets, 0).num_moves = 2
    /\ DictGet(tickets, 1).num_moves = 1


-----------------------------------------------------------------------------
(* Claims on agents off the board, teardown and the scheduler's fairness. *)

\* The active agent is not on the board but has a place to respawn at.
DeadAgentActive ==
    /\ agent_index # NoAgent
    /\ get_agent_position(board, agent_index) = NoPosition
    /\ get_agent_initial_position(board, agent_index) # NoPosition

\* C31: an active agent that is not on the board has the legal action set
\* [STOP]; processing its turn raises nothing for STOP (only another action
\* is refused as illegal) and puts the agent back at its initial position.
C31_Original ==
    [][DeadAgentActive
          => /\ get_legal_actions = <<STOP>>
             /\ (err' # err) => err' = "ValueError: illegal action"
             /\ (board' # board)
                   => /\ err' = "none"
                      /\ get_action(action_record') = STOP
                      /\ get_agent_position(board', agent_index)
                            = get_agent_initial_position(board, agent_index)]_vars


\* C32: isolator.game_complete is best-effort: whatever an agent's
\* game_complete handler does, the engine's call returns without an error
\* and the engine goes on to isolator.close.
C32_Original ==
    [][(pc = "isolator.game_complete" /\ pc' # pc)
          => /\ pc' = "isolator.close"
             /\ err' = err]_vars

\* C33: the game's random stream after isolator.game_start does not depend
\* on the number of agents: the generator is where the draw of the game id
\* left it, whatever the agents were given as seeds.
C33_Original ==
    pc = "loop" => rng = randint(Random(rng.seed))

\* The inputs the agent was handed so far, then the ones waiting for it, are
\* the inputs the UI reported so far, in the order reported.
InputsAccounted(a) ==
    DictGet(ui_log.handed, a) \o DictGet(agent_user_inputs, a) = ui_log.seen

\* C34: every input the UI reports reaches each agent exactly once and in
\* the order seen: a call of _get_user_inputs hands the active agent all it
\* has not been handed yet and empties its buffer, hands nothing to any
\* other agent, and keeps for every other agent what it has not been handed.
C34_InputsPerRecipient ==
    [][(ui_log' # ui_log /\ err' = "none")
          => /\ DictGet(ui_log'.handed, agent_index) = ui_log'.seen
             /\ DictGet(agent_user_inputs', agent_index) = <<>>
             /\ \A a \in DictKeys(agent_user_inputs) \ {agent_index} :
                   /\ DictGet(ui_log'.handed, a) = DictGet(ui_log.handed, a)
                   /\ InputsAccounted(a)']_vars

\* Agent 1 has been handed two inputs, the first of them reported while
\* agent 0 was the active agent, and agent 0 has not been handed the second.
C34_Witness ==
    /\ DictKeys(agent_user_inputs) = {0, 1}
    /\ Len(ui_log.seen) = 2
    /\ DictGet(ui_log.handed, 1) = ui_log.seen
    /\ Len(DictGet(ui_log.handed, 0)) = 1
    /\ Len(DictGet(agent_user_inputs, 0)) = 1
    /\ ui_log.seen[1] # ui_log.seen[2]

\* The agent the tickets select, or no agent when the game is over or no
\* ticket is held.
SelectedByTickets(over, tk) ==
    IF over \/ tk = <<>> THEN NoAgent ELSE get_next_agent_index(tk)

ScheduleAgents == 0..(MaxAgents - 1)

PositiveDelays == \A i \in DOMAIN move_delays : move_delays[i].v > 0

\* The turns the other agents can take before agent a moves: agent b moves
\* at its next_time and then every move delay, as long as that is not after
\* a's next_time.
RECURSIVE TurnsBefore(_, _)
TurnsBefore(a, tk) ==
    IF tk = <<>> THEN 0
    ELSE LET b == Head(tk).k
             mine == DictGet(tickets, a).next_time
             theirs == Head(tk).v.next_time
         IN  (IF b = a \/ theirs > mine THEN 0
              ELSE ((mine - theirs) \div DictGet(move_delays, b)) + 1)
             + TurnsBefore(a, Tail(tk))

\* The game goes on, with positive delays, and the turn bound of the model
\* leaves room for the turns that come before the next turn of agent a.
AwaitsTurn(a) ==
    /\ pc = "started"
    /\ err = "none"
    /\ ~game_over
    /\ PositiveDelays
    /\ DictHas(tickets, a)
    /\ turn_count + TurnsBefore(a, tickets) < MaxTurns

EqualDelays ==
    /\ move_delays # <<>>
    /\ \A i \in DOMAIN move_delays :
          /\ move_delays[i].v = move_delays[1].v
          /\ \A j \in DOMAIN move_delays :
                move_delays[i].k - move_delays[j].k < move_delays[1].v

\* The agent after a in ascending cyclic order of the agent indexes.
NextInRound(a) ==
    LET later == {b \in DictKeys(move_delays) : b > a}
    IN  IF later = {}
        THEN CHOOSE b \in DictKeys(move_delays) : \A c \in DictKeys(move_delays) : b <= c
        ELSE CHOOSE b \in later : \A c \in later : b <= c

\* C37: game_start issues the tickets (agent_index + move_delay, 0, 0); with
\* one move delay for all agents that is larger than the spread of the agent
\* indexes, the first turn is the smallest index's, each completed turn
\* passes the turn to the next index in ascending cyclic order, and no agent
\* is more than one move ahead of another.
C37_RoundRobin ==
    [][EqualDelays
          => /\ (pc # "started" /\ pc' = "started")
                   => /\ \A i \in DOMAIN move_delays :
                            DictGet(tickets', move_delays[i].k)
                               = Ticket(move_delays[i].k + move_delays[i].v, 0, 0)
                      /\ \A b \in DictKeys(move_delays) : agent_index' <= b
             /\ TurnCompleted
                   => /\ agent_index' = NextInRound(agent_index)
                      /\ \A i, j \in DOMAIN tickets' :
                            tickets'[i].v.num_moves - tickets'[j].v.num_moves <= 1]_vars

\* Three agents with delay 3 after two full rounds.
C37_Witness ==
    /\ pc = "started"
    /\ EqualDelays
    /\ DictKeys(tickets) = {0, 1, 2}
    /\ turn_count = 6
    /\ agent_index = 0
    /\ \A i \in DOMAIN tickets : tickets[i].v.num_moves = 2

\* The (agent_index, action) records of a history.
RecordsOf(items) == [i \in DOMAIN items |-> <<items[i].agent_index, get_action(items[i])>>]

\* C38: a replay that has run to its end holds the same sequence of
\* (agent_index, action) records as the saved game, and is not marked as
\* timed out.
C38_Original ==
    (pc = "done" /\ is_replay)
        => /\ RecordsOf(history) = RecordsOf(replay_info.history)
           /\ ~timeout

\* A normal run up to close: the complete message was sent to every worker,
\* and no worker hangs in its agent's code or was ended by it.
NormalRun ==
    /\ level = "process"
    /\ DOMAIN workers # {}
    /\ \A a \in DOMAIN workers :
          /\ workers[a].at \notin {"hung", "raised"}
          /\ \/ InFlight(a, MESSAGE_TYPE_COMPLETE) # {}
             \/ workers[a].at \in {MESSAGE_TYPE_COMPLETE, "exited"}

\* C39: in a normal run a worker that has handled the complete message has
\* left its loop for good and answers nothing more, and close goes through
\* its stages to the end without terminating or killing a worker.
C39_Original ==
    [][/\ \A a \in DOMAIN workers :
             (level = "process" /\ workers[a].at = "exited")
                => /\ workers'[a].at = "exited"
                   /\ channels'[a].action = channels[a].action
       /\ (NormalRun /\ pc \in {"close.empty", "close.join"})
             => /\ pc' \in {"close.empty", "close.join", "done"}
                /\ \A a \in DOMAIN workers :
                      workers'[a].at \notin {"terminated", "killed"}]_vars

=============================================================================
